---------------------------- MODULE Spec2Model ----------------------------
(***************************************************************************)
(* Proof-of-location pallet: the node registry (AccountData,               *)
(* AddressRegistrationData, ServerConfig) and the RSSI store (RssiData),   *)
(* driven by the dispatchable calls of pallet_calls.rs.                    *)
(*                                                                         *)
(* One action is one dispatched extrinsic, run to completion.  Besides the *)
(* four storage items the state holds the current block number and, for    *)
(* the extrinsic dispatched last, the call with its arguments, the         *)
(* DispatchResult and the events it deposited (the suffix it appended to   *)
(* the System event log).                                                  *)
(*                                                                         *)
(* Off the chain the state holds the runtime API's trust score query       *)
(* (rpc_impl.rs, util.rs) and the sensing server: the sliding windows of   *)
(* the scanning engine (bluetooth.rs) and the neighbor set kept by the     *)
(* event listener (neighbor.rs).                                           *)
(***************************************************************************)
EXTENDS Integers, Sequences, FiniteSets, TLC

VARIABLES
    AccountData,              \* StorageMap AccountId -> LocationData
    AddressRegistrationData,  \* StorageMap [u8; 6]   -> AccountId
    ServerConfig,             \* StorageMap AccountId -> server URL
    RssiData,                 \* StorageNMap (block, neighbor, reporter) -> i16
    block_number,             \* frame_system::Pallet::block_number()
    call,                     \* the extrinsic dispatched last
    result,                   \* its DispatchResult: "Ok" or the error
    events,                   \* the events it deposited, in order
    overflow_checks,          \* the build: TRUE panics on overflow, FALSE wraps
    values,                   \* the slice handed to trimmed_median_error
    query,                    \* the trust score query answered last
    score,                    \* what the function or query returned
    rssi_data,                \* RssiData of bluetooth.rs: Address -> VecDeque<i16>
    device_tasks,             \* Address -> the state of the task whose handle is kept
    pushed,                   \* per window, every sample pushed since it was created
    response,                 \* the reply of current_rssi, if the last step was one
    scan_devices_result,      \* "running", or "Err" once scan_devices returned
    adapter_event,            \* the AdapterEvent handled, if the last step was one
    in_flight,                \* Address -> the reading a task has taken and not pushed
    rssi_data_snapshot,       \* the clone a current_rssi under way holds, if any
    discovered,               \* the radios the adapter announced and has not lost
    pool,                     \* the transactions of the local account not yet in a block
    cycle,                    \* what the last run of the offchain worker did
    cycles,                   \* the number of runs of the offchain worker
    registrations,            \* the number of register_node calls it has submitted
    wire,                     \* an RSSI answer: the list, its bytes, what they decode to
    our_bluetooth_address,    \* the radio address of the local node
    neighbor_addresses,       \* HashSet<Address> shared with the listener
    notification,             \* the chain event the listener handled last
    deliveries,               \* how many times in a row it has handled that event
    at,                       \* task of the sensing server -> where it stands in its code
    holder                    \* lock of the sensing server -> the task holding it

storage == <<AccountData, AddressRegistrationData, ServerConfig, RssiData>>
\* The pallet's side of the state and the rest: the runtime API's query and
\* the sensing server.
chain == <<AccountData, AddressRegistrationData, ServerConfig, RssiData,
           block_number, call, result, events>>
scoring == <<overflow_checks, values, query, score>>
scanning == <<rssi_data, device_tasks, pushed, response, scan_devices_result,
              adapter_event, in_flight, rssi_data_snapshot, discovered>>
neighbors == <<our_bluetooth_address, neighbor_addresses, notification, deliveries>>
worker == <<pool, cycle, cycles, registrations, wire>>
\* Where the tasks of the sensing server stand and who holds its locks.
locking == <<at, holder>>
offchain == <<scoring, scanning, neighbors, worker, locking>>
vars == <<chain, offchain>>

---------------------------------------------------------------------------
(* Bounds of the model.                                                    *)

\* Blocks run from 1 to MaxBlock.
MaxBlock == 2
\* RssiData holds at most this many entries (a publish to a new key is not
\* dispatched beyond it; overwriting an existing key always is).
MaxRssiEntries == 2

(* Inputs of the calls.                                                    *)

Accounts == {"alice", "bob"}
Addresses == {"11:22:33:44:55:66", "AA:BB:CC:DD:EE:FF", "01:02:03:04:05:06"}
\* The radio each account owns, where the address is not what is examined.
RadioOf == [a \in Accounts |-> IF a = "alice" THEN "11:22:33:44:55:66"
                                              ELSE "AA:BB:CC:DD:EE:FF"]
\* (latitude, longitude) in micro-degrees.  From (0, 0), (89, 0) is 9.896 m
\* away and (0, 90) is 10.008 m away; (89, 0) and (0, 90) are 14.07 m apart.
Coordinates == {<<0, 0>>, <<89, 0>>, <<0, 90>>}
RssiValues == {-65, -70}
\* A server URL is represented by its length in bytes.
ServerUrls == {14, 257}

(* Program constants.                                                      *)

\* mock.rs: MaxDistanceMeters, read by publish_rssi_data.
MaxDistanceMeters == 10
\* BoundedVec<u8, ConstU32<256>>
MaxServerUrlLen == 256
\* Micrometres per micro-degree of arc on the sphere haversine_redux
\* uses (radius 6371 km): 6371000 * pi / 180 = 111194.93.
MicroMetresPerMicroDegree == 111195

---------------------------------------------------------------------------
(* Storage maps are partial functions: a key is present when it is in the  *)
(* DOMAIN.                                                                 *)

contains_key(map, key) == key \in DOMAIN map

insert(map, key, value) ==
    [k \in DOMAIN map \cup {key} |-> IF k = key THEN value ELSE map[k]]

remove(map, key) == [k \in DOMAIN map \ {key} |-> map[k]]

(* Helpers.                                                                *)

Abs(x) == IF x < 0 THEN -x ELSE x

\* util.rs: struct LocationData, as pallet_calls.rs builds it.
LocationData(address, latitude, longitude) ==
    [address |-> address, latitude |-> latitude, longitude |-> longitude]

\* The length of an arc of d micro-degrees, in whole millimetres.
ArcMilliMetres(d) == (Abs(d) * MicroMetresPerMicroDegree) \div 1000

\* Location::kilometers_to, squared and in square millimetres.  For points
\* within a few hundred micro-degrees of (0, 0) the haversine distance is
\* the euclidean one of the two arcs (cos(lat) = 1 to twelve digits).
DistanceSquaredMm(a, b) ==
    LET dlat == ArcMilliMetres(a.latitude - b.latitude)
        dlon == ArcMilliMetres(a.longitude - b.longitude)
    IN  dlat * dlat + dlon * dlon

\* Faulty variant: the kilometres are compared with the maximum in metres.
WithinMaxDistanceKilometres(a, b) ==
    DistanceSquaredMm(a, b) \div 1000000
        <= (MaxDistanceMeters * 1000) * (MaxDistanceMeters * 1000)

\* distance <= T::MaxDistanceMeters::get() as f64
WithinMaxDistance(a, b) ==
    DistanceSquaredMm(a, b) <= (MaxDistanceMeters * 1000) * (MaxDistanceMeters * 1000)

(* Events.                                                                 *)

NodeRegistered(address, who, latitude, longitude) ==
    [event |-> "NodeRegistered", address |-> address, who |-> who,
     latitude |-> latitude, longitude |-> longitude]

NodeUnregistered(address, who) ==
    [event |-> "NodeUnregistered", address |-> address, who |-> who]

NodeUpdated(who, old, new) ==
    [event |-> "NodeUpdated", who |-> who,
     old_address |-> old.address, new_address |-> new.address,
     old_latitude |-> old.latitude, new_latitude |-> new.latitude,
     old_longitude |-> old.longitude, new_longitude |-> new.longitude]

RssiStored(block, neighbor, who, rssi) ==
    [event |-> "RssiStored", block_number |-> block, neighbor |-> neighbor,
     who |-> who, rssi |-> rssi]

\* ensure!(cond, err) failing: the call returns Err(err) before any write.
Fail(err) ==
    /\ result' = err
    /\ events' = <<>>
    /\ UNCHANGED <<storage, block_number>>

---------------------------------------------------------------------------
(* No query asked and the sensing server not started.                      *)

NoScore == [kind |-> "None", value |-> 0]

InitScoring ==
    /\ overflow_checks = FALSE
    /\ values = <<>>
    /\ query = [name |-> "none"]
    /\ score = NoScore

NoResponse == [kind |-> "none", devices |-> {}]
NoEvent == [kind |-> "none", addr |-> "", spawned |-> FALSE]

InitScanning ==
    /\ rssi_data = <<>>
    /\ device_tasks = <<>>
    /\ pushed = <<>>
    /\ response = NoResponse
    /\ scan_devices_result = "running"
    /\ adapter_event = NoEvent
    /\ in_flight = <<>>
    /\ rssi_data_snapshot = <<>>
    /\ discovered = {}

InitNeighbors ==
    /\ our_bluetooth_address = "11:22:33:44:55:66"
    /\ neighbor_addresses = {}
    /\ notification = [event |-> "none"]
    /\ deliveries = 0

\* No reporting cycle has run and no transaction waits for a block.
NoCycle ==
    [result |-> "none", trace |-> <<>>, registered |-> FALSE,
     after |-> [result |-> "none", trace |-> <<>>]]
NoWire == [step |-> "none", devices |-> <<>>, body |-> <<>>,
           decoded |-> [kind |-> "none", devices |-> <<>>]]
InitWorker ==
    /\ pool = <<>>
    /\ cycle = NoCycle
    /\ cycles = 0
    /\ registrations = 0
    /\ wire = NoWire

\* The tasks of the sensing server before main starts them: start_continuous_scan
\* and the listener are about to run, no peer has a task, no request is
\* being answered, both locks are free.
InitLocking ==
    /\ at = [scan_devices |-> "start", task |-> "unspawned",
             listener |-> "subscribe", current_rssi |-> "idle"]
    /\ holder = [rssi_data |-> "none", neighbor_addresses |-> "none"]

InitOffchain ==
    InitScoring /\ InitScanning /\ InitNeighbors /\ InitWorker /\ InitLocking

(* The state after genesis: empty storage, first block.                    *)

Init ==
    /\ AccountData = <<>>
    /\ AddressRegistrationData = <<>>
    /\ ServerConfig = <<>>
    /\ RssiData = <<>>
    /\ block_number = 1
    /\ call = [name |-> "genesis"]
    /\ result = "Ok"
    /\ events = <<>>
    /\ InitOffchain

---------------------------------------------------------------------------
(* The dispatchable calls.                                                 *)

set_server_config(who, server_url) ==
    /\ call' = [name |-> "set_server_config", who |-> who, server_url |-> server_url]
    /\ IF server_url > MaxServerUrlLen
       THEN Fail("Server URL too long (max 256 bytes)")
       ELSE /\ ServerConfig' = insert(ServerConfig, who, server_url)
            /\ result' = "Ok"
            /\ events' = <<>>
            /\ UNCHANGED <<AccountData, AddressRegistrationData, RssiData, block_number>>

\* Faulty variant: the account is checked before the address.
register_node_account_first(who, address, latitude, longitude) ==
    /\ call' = [name |-> "register_node", who |-> who, address |-> address,
                latitude |-> latitude, longitude |-> longitude]
    /\ IF contains_key(AccountData, who)
       THEN Fail("AccountAlreadyRegistered")
       ELSE IF contains_key(AddressRegistrationData, address)
       THEN Fail("BluetoothAddressAlreadyTaken")
       ELSE /\ AccountData' = insert(AccountData, who,
                                     LocationData(address, latitude, longitude))
            /\ AddressRegistrationData' = insert(AddressRegistrationData, address, who)
            /\ events' = <<NodeRegistered(address, who, latitude, longitude)>>
            /\ result' = "Ok"
            /\ UNCHANGED <<ServerConfig, RssiData, block_number>>

\* Faulty variant: latitude and longitude are stored the wrong way round.
register_node_swapped(who, address, latitude, longitude) ==
    /\ call' = [name |-> "register_node", who |-> who, address |-> address,
                latitude |-> latitude, longitude |-> longitude]
    /\ IF contains_key(AddressRegistrationData, address)
       THEN Fail("BluetoothAddressAlreadyTaken")
       ELSE IF contains_key(AccountData, who)
       THEN Fail("AccountAlreadyRegistered")
       ELSE /\ AccountData' = insert(AccountData, who,
                                     LocationData(address, longitude, latitude))
            /\ AddressRegistrationData' = insert(AddressRegistrationData, address, who)
            /\ events' = <<NodeRegistered(address, who, latitude, longitude)>>
            /\ result' = "Ok"
            /\ UNCHANGED <<ServerConfig, RssiData, block_number>>

register_node(who, address, latitude, longitude) ==
    /\ call' = [name |-> "register_node", who |-> who, address |-> address,
                latitude |-> latitude, longitude |-> longitude]
    /\ IF contains_key(AddressRegistrationData, address)
       THEN Fail("BluetoothAddressAlreadyTaken")
       ELSE IF contains_key(AccountData, who)
       THEN Fail("AccountAlreadyRegistered")
       ELSE /\ AccountData' = insert(AccountData, who,
                                     LocationData(address, latitude, longitude))
            /\ AddressRegistrationData' = insert(AddressRegistrationData, address, who)
            /\ events' = <<NodeRegistered(address, who, latitude, longitude)>>
            /\ result' = "Ok"
            /\ UNCHANGED <<ServerConfig, RssiData, block_number>>

\* Faulty variant: the server configuration is left behind.
unregister_node_keeps_config(who) ==
    /\ call' = [name |-> "unregister_node", who |-> who]
    /\ IF ~contains_key(AccountData, who)
       THEN Fail("AccountNotRegistered")
       ELSE LET bluetooth_address == AccountData[who].address
            IN  /\ AccountData' = remove(AccountData, who)
                /\ AddressRegistrationData' =
                       remove(AddressRegistrationData, bluetooth_address)
                /\ events' = <<NodeUnregistered(bluetooth_address, who)>>
                /\ result' = "Ok"
                /\ UNCHANGED <<ServerConfig, RssiData, block_number>>

\* Faulty variant: unregistering an unknown account is accepted as a no-op.
unregister_node_unchecked(who) ==
    /\ call' = [name |-> "unregister_node", who |-> who]
    /\ IF ~contains_key(AccountData, who)
       THEN /\ ServerConfig' = remove(ServerConfig, who)
            /\ events' = <<>>
            /\ result' = "Ok"
            /\ UNCHANGED <<AccountData, AddressRegistrationData, RssiData, block_number>>
       ELSE LET bluetooth_address == AccountData[who].address
            IN  /\ AccountData' = remove(AccountData, who)
                /\ AddressRegistrationData' =
                       remove(AddressRegistrationData, bluetooth_address)
                /\ ServerConfig' = remove(ServerConfig, who)
                /\ events' = <<NodeUnregistered(bluetooth_address, who)>>
                /\ result' = "Ok"
                /\ UNCHANGED <<RssiData, block_number>>

unregister_node(who) ==
    /\ call' = [name |-> "unregister_node", who |-> who]
    /\ IF ~contains_key(AccountData, who)
       THEN Fail("AccountNotRegistered")
       ELSE LET bluetooth_address == AccountData[who].address
            IN  /\ AccountData' = remove(AccountData, who)
                /\ AddressRegistrationData' =
                       remove(AddressRegistrationData, bluetooth_address)
                /\ ServerConfig' = remove(ServerConfig, who)
                /\ events' = <<NodeUnregistered(bluetooth_address, who)>>
                /\ result' = "Ok"
                /\ UNCHANGED <<RssiData, block_number>>

\* Faulty variant: the old address mapping is not removed.
update_node_info_keeps_old_address(who, address, latitude, longitude) ==
    /\ call' = [name |-> "update_node_info", who |-> who, address |-> address,
                latitude |-> latitude, longitude |-> longitude]
    /\ IF ~contains_key(AccountData, who)
       THEN Fail("AccountNotRegistered")
       ELSE LET old_location_data == AccountData[who]
                old_address == old_location_data.address
                new_location_data == LocationData(address, latitude, longitude)
            IN  IF old_address # address
                   /\ contains_key(AddressRegistrationData, address)
                THEN Fail("BluetoothAddressAlreadyTaken")
                ELSE /\ AddressRegistrationData' =
                            insert(AddressRegistrationData, address, who)
                     /\ AccountData' = insert(AccountData, who, new_location_data)
                     /\ events' = <<NodeUpdated(who, old_location_data, new_location_data)>>
                     /\ result' = "Ok"
                     /\ UNCHANGED <<ServerConfig, RssiData, block_number>>

\* Faulty variant: the new address is not checked against the registry.
update_node_info_unchecked_address(who, address, latitude, longitude) ==
    /\ call' = [name |-> "update_node_info", who |-> who, address |-> address,
                latitude |-> latitude, longitude |-> longitude]
    /\ IF ~contains_key(AccountData, who)
       THEN Fail("AccountNotRegistered")
       ELSE LET old_location_data == AccountData[who]
                old_address == old_location_data.address
                new_location_data == LocationData(address, latitude, longitude)
            IN  /\ AddressRegistrationData' =
                       IF old_address # address
                       THEN insert(remove(AddressRegistrationData, old_address),
                                   address, who)
                       ELSE AddressRegistrationData
                /\ AccountData' = insert(AccountData, who, new_location_data)
                /\ events' = <<NodeUpdated(who, old_location_data, new_location_data)>>
                /\ result' = "Ok"
                /\ UNCHANGED <<ServerConfig, RssiData, block_number>>

\* Faulty variant: the event reports the new coordinates as the old ones.
update_node_info_event_mixup(who, address, latitude, longitude) ==
    /\ call' = [name |-> "update_node_info", who |-> who, address |-> address,
                latitude |-> latitude, longitude |-> longitude]
    /\ IF ~contains_key(AccountData, who)
       THEN Fail("AccountNotRegistered")
       ELSE LET old_location_data == AccountData[who]
                old_address == old_location_data.address
                new_location_data == LocationData(address, latitude, longitude)
            IN  IF old_address # address
                   /\ contains_key(AddressRegistrationData, address)
                THEN Fail("BluetoothAddressAlreadyTaken")
                ELSE /\ AddressRegistrationData' =
                            IF old_address # address
                            THEN insert(remove(AddressRegistrationData, old_address),
                                        address, who)
                            ELSE AddressRegistrationData
                     /\ AccountData' = insert(AccountData, who, new_location_data)
                     /\ events' = <<NodeUpdated(who,
                                       LocationData(old_address, latitude, longitude),
                                       new_location_data)>>
                     /\ result' = "Ok"
                     /\ UNCHANGED <<ServerConfig, RssiData, block_number>>

update_node_info(who, address, latitude, longitude) ==
    /\ call' = [name |-> "update_node_info", who |-> who, address |-> address,
                latitude |-> latitude, longitude |-> longitude]
    /\ IF ~contains_key(AccountData, who)
       THEN Fail("AccountNotRegistered")
       ELSE LET old_location_data == AccountData[who]
                old_address == old_location_data.address
                new_location_data == LocationData(address, latitude, longitude)
            IN  IF old_address # address
                   /\ contains_key(AddressRegistrationData, address)
                THEN Fail("BluetoothAddressAlreadyTaken")
                ELSE /\ AddressRegistrationData' =
                            IF old_address # address
                            THEN insert(remove(AddressRegistrationData, old_address),
                                        address, who)
                            ELSE AddressRegistrationData
                     /\ AccountData' = insert(AccountData, who, new_location_data)
                     /\ events' = <<NodeUpdated(who, old_location_data, new_location_data)>>
                     /\ result' = "Ok"
                     /\ UNCHANGED <<ServerConfig, RssiData, block_number>>

\* Faulty variant: reporter and neighbor change places in the key.
publish_rssi_data_key_swapped(who, neighbor, rssi) ==
    /\ call' = [name |-> "publish_rssi_data", who |-> who, neighbor |-> neighbor,
                rssi |-> rssi]
    /\ IF ~contains_key(AccountData, who)
       THEN Fail("AccountNotRegistered")
       ELSE IF ~contains_key(AccountData, neighbor)
       THEN Fail("AccountNotRegistered")
       ELSE IF ~WithinMaxDistance(AccountData[who], AccountData[neighbor])
       THEN Fail("ExceedsMaxDistance")
       ELSE /\ RssiData' = insert(RssiData, <<block_number, who, neighbor>>, rssi)
            /\ events' = <<RssiStored(block_number, neighbor, who, rssi)>>
            /\ result' = "Ok"
            /\ UNCHANGED <<AccountData, AddressRegistrationData, ServerConfig,
                           block_number>>

\* Faulty variant: the reporter is checked twice, the neighbor never; a
\* report about an unknown neighbor is stored.
publish_rssi_data_reporter_twice(who, neighbor, rssi) ==
    /\ call' = [name |-> "publish_rssi_data", who |-> who, neighbor |-> neighbor,
                rssi |-> rssi]
    /\ IF ~contains_key(AccountData, who)
       THEN Fail("AccountNotRegistered")
       ELSE IF contains_key(AccountData, neighbor)
               /\ ~WithinMaxDistance(AccountData[who], AccountData[neighbor])
       THEN Fail("ExceedsMaxDistance")
       ELSE /\ RssiData' = insert(RssiData, <<block_number, neighbor, who>>, rssi)
            /\ events' = <<RssiStored(block_number, neighbor, who, rssi)>>
            /\ result' = "Ok"
            /\ UNCHANGED <<AccountData, AddressRegistrationData, ServerConfig,
                           block_number>>

publish_rssi_data(who, neighbor, rssi) ==
    /\ call' = [name |-> "publish_rssi_data", who |-> who, neighbor |-> neighbor,
                rssi |-> rssi]
    /\ IF ~contains_key(AccountData, who)
       THEN Fail("AccountNotRegistered")
       ELSE IF ~contains_key(AccountData, neighbor)
       THEN Fail("AccountNotRegistered")
       ELSE IF ~WithinMaxDistance(AccountData[who], AccountData[neighbor])
       THEN Fail("ExceedsMaxDistance")
       ELSE /\ RssiData' = insert(RssiData, <<block_number, neighbor, who>>, rssi)
            /\ events' = <<RssiStored(block_number, neighbor, who, rssi)>>
            /\ result' = "Ok"
            /\ UNCHANGED <<AccountData, AddressRegistrationData, ServerConfig,
                           block_number>>

\* The chain moves to the next block; no extrinsic of it has run yet.
NextBlock ==
    /\ block_number < MaxBlock
    /\ block_number' = block_number + 1
    /\ call' = [name |-> "initialize_block"]
    /\ result' = "Ok"
    /\ events' = <<>>
    /\ UNCHANGED storage

\* The bound on RssiData: a publish that would add an entry beyond
\* MaxRssiEntries is not dispatched.
RoomFor(who, neighbor) ==
    \/ <<block_number, neighbor, who>> \in DOMAIN RssiData
    \/ Cardinality(DOMAIN RssiData) < MaxRssiEntries

---------------------------------------------------------------------------
(* The registry: every account may claim every address.  publish_rssi_data *)
(* is left to SpecRssi: it writes RssiData alone, which no registry call   *)
(* reads.                                                                  *)

Next ==
    \/ \E who \in Accounts, server_url \in ServerUrls :
           set_server_config(who, server_url) /\ UNCHANGED offchain
    \/ \E who \in Accounts, address \in Addresses, c \in Coordinates :
           register_node(who, address, c[1], c[2]) /\ UNCHANGED offchain
    \/ \E who \in Accounts :
           unregister_node(who) /\ UNCHANGED offchain
    \/ \E who \in Accounts, address \in Addresses, c \in Coordinates :
           update_node_info(who, address, c[1], c[2]) /\ UNCHANGED offchain
    \/ NextBlock /\ UNCHANGED offchain

Spec == Init /\ [][Next]_vars

(* The RSSI store: nodes come, move and go, each with the radio it owns,   *)
(* and report on each other.  set_server_config is left to Spec:           *)
(* publish_rssi_data reads AccountData alone.                              *)

NextRssi ==
    \/ \E who \in Accounts, c \in Coordinates :
           register_node(who, RadioOf[who], c[1], c[2]) /\ UNCHANGED offchain
    \/ \E who \in Accounts :
           unregister_node(who) /\ UNCHANGED offchain
    \/ \E who \in Accounts, c \in Coordinates :
           update_node_info(who, RadioOf[who], c[1], c[2]) /\ UNCHANGED offchain
    \/ \E who \in Accounts, neighbor \in Accounts, rssi \in RssiValues :
           RoomFor(who, neighbor) /\ publish_rssi_data(who, neighbor, rssi) /\ UNCHANGED offchain
    \/ NextBlock /\ UNCHANGED offchain

SpecRssi == Init /\ [][NextRssi]_vars

---------------------------------------------------------------------------
(* Properties.                                                             *)

Registered(who) == who \in DOMAIN AccountData
Taken(address) == address \in DOMAIN AddressRegistrationData

\* The call left every storage item as it was and deposited no event.
Noop == UNCHANGED storage /\ events' = <<>>

\* Map new is map old with key set to value and nothing else touched.
IsInsert(old, new, key, value) ==
    /\ DOMAIN new = DOMAIN old \cup {key}
    /\ new[key] = value
    /\ \A k \in DOMAIN old \ {key} : new[k] = old[k]

\* Map new is map old without key and nothing else touched.
IsRemove(old, new, key) ==
    /\ DOMAIN new = DOMAIN old \ {key}
    /\ \A k \in DOMAIN new : new[k] = old[k]

\* C1: AccountData and AddressRegistrationData are mutual inverses in every
\* reachable state: account a holds address x exactly when x maps to a, so
\* no two accounts hold the same address and no address maps to two
\* accounts.
C1_AddressBijection ==
    /\ \A a \in DOMAIN AccountData :
           /\ Taken(AccountData[a].address)
           /\ AddressRegistrationData[AccountData[a].address] = a
    /\ \A x \in DOMAIN AddressRegistrationData :
           /\ Registered(AddressRegistrationData[x])
           /\ AccountData[AddressRegistrationData[x]].address = x
    /\ \A a, b \in DOMAIN AccountData :
           AccountData[a].address = AccountData[b].address => a = b

\* Both accounts are registered and the last call moved one of them to
\* another address.
C1_Witness ==
    /\ Cardinality(DOMAIN AccountData) = 2
    /\ call.name = "update_node_info"
    /\ result = "Ok"
    /\ events[1].old_address # events[1].new_address

\* C2: update_node_info by a registered account with an address mapped to
\* another account fails with BluetoothAddressAlreadyTaken, changes no
\* storage and deposits no event; with the caller's own current address it
\* never fails with that error.
C2_UpdateAddressTaken ==
    [][(call'.name = "update_node_info" /\ Registered(call'.who)) =>
         /\ (Taken(call'.address)
               /\ AddressRegistrationData[call'.address] # call'.who)
            => (result' = "BluetoothAddressAlreadyTaken" /\ Noop)
         /\ call'.address = AccountData[call'.who].address
            => result' # "BluetoothAddressAlreadyTaken"
      ]_vars

\* An update was rejected because another registered account holds the
\* address asked for.
C2_Witness ==
    /\ call.name = "update_node_info"
    /\ result = "BluetoothAddressAlreadyTaken"
    /\ Registered(call.who)
    /\ Taken(call.address)
    /\ AddressRegistrationData[call.address] # call.who
    /\ AccountData[call.who].address # call.address

\* C3: register_node fails with BluetoothAddressAlreadyTaken when the
\* address is mapped to any account, otherwise with AccountAlreadyRegistered
\* when the caller has an AccountData entry; either way nothing is stored
\* and no event is deposited.
C3_RegisterRejections ==
    [][call'.name = "register_node" =>
         /\ Taken(call'.address)
            => (result' = "BluetoothAddressAlreadyTaken" /\ Noop)
         /\ (~Taken(call'.address) /\ Registered(call'.who))
            => (result' = "AccountAlreadyRegistered" /\ Noop)
      ]_vars

\* A registered account asked for an address that another account holds:
\* both conditions held and the address error was returned.
C3_Witness ==
    /\ call.name = "register_node"
    /\ result = "BluetoothAddressAlreadyTaken"
    /\ Registered(call.who)
    /\ Taken(call.address)
    /\ AddressRegistrationData[call.address] # call.who

\* C4: register_node by an unregistered account with a free address
\* succeeds, stores exactly (address, latitude, longitude) under the caller,
\* maps the address to the caller, leaves every other entry alone and
\* deposits exactly one NodeRegistered event with the same four values.
C4_RegisterStores ==
    [][(call'.name = "register_node"
          /\ ~Registered(call'.who) /\ ~Taken(call'.address)) =>
         /\ result' = "Ok"
         /\ IsInsert(AccountData, AccountData', call'.who,
                     [address |-> call'.address, latitude |-> call'.latitude,
                      longitude |-> call'.longitude])
         /\ IsInsert(AddressRegistrationData, AddressRegistrationData',
                     call'.address, call'.who)
         /\ UNCHANGED <<ServerConfig, RssiData>>
         /\ events' = <<[event |-> "NodeRegistered", address |-> call'.address,
                         who |-> call'.who, latitude |-> call'.latitude,
                         longitude |-> call'.longitude]>>
      ]_vars

\* A registration succeeded beside another registered account, with a
\* latitude that differs from the longitude.
C4_Witness ==
    /\ call.name = "register_node"
    /\ result = "Ok"
    /\ Cardinality(DOMAIN AccountData) = 2
    /\ call.latitude # call.longitude

\* C5: a successful update_node_info replaces the caller's AccountData with
\* the new (address, latitude, longitude); when the address changed the old
\* address maps to nobody and the new one to the caller; exactly one
\* NodeUpdated event is deposited, its old_* fields the values stored before
\* the call and its new_* fields the arguments.
C5_UpdateStores ==
    [][(call'.name = "update_node_info" /\ result' = "Ok") =>
         /\ Registered(call'.who)
         /\ IsInsert(AccountData, AccountData', call'.who,
                     [address |-> call'.address, latitude |-> call'.latitude,
                      longitude |-> call'.longitude])
         /\ AccountData[call'.who].address # call'.address =>
                /\ AccountData[call'.who].address
                       \notin DOMAIN AddressRegistrationData'
                /\ call'.address \in DOMAIN AddressRegistrationData'
                /\ AddressRegistrationData'[call'.address] = call'.who
         /\ events' = <<[event |-> "NodeUpdated", who |-> call'.who,
                         old_address |-> AccountData[call'.who].address,
                         new_address |-> call'.address,
                         old_latitude |-> AccountData[call'.who].latitude,
                         new_latitude |-> call'.latitude,
                         old_longitude |-> AccountData[call'.who].longitude,
                         new_longitude |-> call'.longitude]>>
      ]_vars

\* An update succeeded that changed the address and both coordinates.
C5_Witness ==
    /\ call.name = "update_node_info"
    /\ result = "Ok"
    /\ events[1].old_address # events[1].new_address
    /\ events[1].old_latitude # events[1].new_latitude
    /\ events[1].old_longitude # events[1].new_longitude

\* C6: a successful unregister_node removes the caller's AccountData entry,
\* the AddressRegistrationData entry of the address the caller held and the
\* caller's ServerConfig entry, leaves every other entry alone and deposits
\* exactly one NodeUnregistered event with the removed address; a
\* register_node by the same account with the same address right after it
\* succeeds.
C6_UnregisterRemoves ==
    [][/\ (call'.name = "unregister_node" /\ result' = "Ok") =>
            /\ Registered(call'.who)
            /\ IsRemove(AccountData, AccountData', call'.who)
            /\ IsRemove(AddressRegistrationData, AddressRegistrationData',
                        AccountData[call'.who].address)
            /\ IsRemove(ServerConfig, ServerConfig', call'.who)
            /\ UNCHANGED RssiData
            /\ events' = <<[event |-> "NodeUnregistered",
                            address |-> AccountData[call'.who].address,
                            who |-> call'.who]>>
       /\ (/\ call.name = "unregister_node" /\ result = "Ok"
           /\ call'.name = "register_node"
           /\ call'.who = call.who
           /\ call'.address = events[1].address) => result' = "Ok"
      ]_vars

\* An account was unregistered and no server URL of it is left, while the
\* other account stays registered and keeps its server URL.
C6_Witness ==
    /\ call.name = "unregister_node"
    /\ result = "Ok"
    /\ DOMAIN AccountData # {}
    /\ DOMAIN ServerConfig = DOMAIN AccountData

\* C7: unregister_node and update_node_info by an account with no
\* AccountData entry fail with AccountNotRegistered, change no storage item
\* and deposit no event.
C7_NotRegistered ==
    [][(call'.name \in {"unregister_node", "update_node_info"}
          /\ ~Registered(call'.who)) =>
         (result' = "AccountNotRegistered" /\ Noop)
      ]_vars

\* An unregistered account that has a server URL stored asked to be
\* unregistered and was refused.
C7_Witness ==
    /\ call.name = "unregister_node"
    /\ result = "AccountNotRegistered"
    /\ call.who \in DOMAIN ServerConfig
    /\ DOMAIN AccountData # {}

\* C8: a successful publish_rssi_data by reporter R about neighbor S in
\* block B sets RssiData[(B, S, R)] to the given rssi, whether or not the
\* slot held a value before (last write wins), changes no other key and
\* deposits RssiStored{B, S, R, rssi}.
C8_PublishStores ==
    [][(call'.name = "publish_rssi_data" /\ result' = "Ok") =>
         /\ IsInsert(RssiData, RssiData',
                     <<block_number, call'.neighbor, call'.who>>, call'.rssi)
         /\ events' = <<[event |-> "RssiStored", block_number |-> block_number,
                         neighbor |-> call'.neighbor, who |-> call'.who,
                         rssi |-> call'.rssi]>>
         /\ UNCHANGED <<AccountData, AddressRegistrationData, ServerConfig>>
      ]_vars

\* A report by one account about the other was stored in the second block
\* beside an entry of the first block.
C8_Witness ==
    /\ call.name = "publish_rssi_data"
    /\ result = "Ok"
    /\ call.who # call.neighbor
    /\ block_number = 2
    /\ <<2, call.neighbor, call.who>> \in DOMAIN RssiData
    /\ \E k \in DOMAIN RssiData : k[1] = 1

\* C9: publish_rssi_data fails with AccountNotRegistered, storing nothing
\* and depositing nothing, whenever the reporter or the neighbor has no
\* AccountData entry at the time of the call.
C9_PublishNotRegistered ==
    [][(call'.name = "publish_rssi_data"
          /\ (~Registered(call'.who) \/ ~Registered(call'.neighbor))) =>
         (result' = "AccountNotRegistered" /\ Noop)
      ]_vars

\* A registered reporter was refused a report about a neighbor that it had
\* reported on before and that has unregistered since.
C9_Witness ==
    /\ call.name = "publish_rssi_data"
    /\ result = "AccountNotRegistered"
    /\ Registered(call.who)
    /\ ~Registered(call.neighbor)
    /\ \E k \in DOMAIN RssiData : k[2] = call.neighbor /\ k[3] = call.who

\* Reporter and neighbor are further apart than MaxDistanceMeters.
TooFar(a, b) ==
    DistanceSquaredMm(a, b) > (MaxDistanceMeters * 1000) * (MaxDistanceMeters * 1000)

\* C10: publish_rssi_data between two registered accounts fails with
\* ExceedsMaxDistance and stores nothing when their registered coordinates
\* are more than MaxDistanceMeters apart and is accepted otherwise; so an
\* RssiData entry is only ever written, under the current block, while
\* reporter and neighbor are both registered within that distance.
C10_PublishDistance ==
    [][/\ (call'.name = "publish_rssi_data"
             /\ Registered(call'.who) /\ Registered(call'.neighbor)) =>
            IF TooFar(AccountData[call'.who], AccountData[call'.neighbor])
            THEN result' = "ExceedsMaxDistance" /\ Noop
            ELSE result' = "Ok"
       /\ \A k \in DOMAIN RssiData' :
            (k \notin DOMAIN RssiData \/ RssiData'[k] # RssiData[k]) =>
               /\ k[1] = block_number
               /\ Registered(k[2]) /\ Registered(k[3])
               /\ ~TooFar(AccountData[k[3]], AccountData[k[2]])
      ]_vars

\* A report was refused for distance between two registered accounts that
\* had exchanged a report before one of them moved.
C10_Witness ==
    /\ call.name = "publish_rssi_data"
    /\ result = "ExceedsMaxDistance"
    /\ \E k \in DOMAIN RssiData : k[2] = call.neighbor /\ k[3] = call.who


\* C11: an update_node_info dispatched before UpdateCooldown blocks have
\* passed since the caller's information was last written is rejected with
\* NodeUpdateCooldownNotElapsed and changes nothing.  The earliest case of
\* it, which every cooldown of one block or more forbids: the extrinsic
\* dispatched just before, in the same block, was a successful
\* register_node or update_node_info of the same account.
C11_UpdateCooldown ==
    [][(/\ call.name \in {"register_node", "update_node_info"}
        /\ result = "Ok"
        /\ call'.name = "update_node_info"
        /\ call'.who = call.who)
       => (result' = "NodeUpdateCooldownNotElapsed" /\ Noop)]_vars


---------------------------------------------------------------------------
(* The trust score: util.rs and rpc_impl.rs.                               *)

\* Error lists handed to trimmed_median_error hold at most MaxSamples
\* samples.
MaxSamples == 6

I16Max == 32767
I16Min == -I16Max - 1

\* The samples of the lists: small errors of both signs, one error large
\* enough that two of it do not fit an i16, and the least i16.
ErrorSamples == {-5, -10, 20, 100, 20000, I16Min}

InI16(x) == I16Min <= x /\ x <= I16Max

\* Two's complement wrap-around of an i16 operation built without overflow
\* checks.
WrapI16(x) == ((x - I16Min) % (2 * (I16Max + 1))) + I16Min

\* Rust's integer division truncates toward zero.
DivTrunc(a, b) == IF a >= 0 THEN a \div b ELSE -((-a) \div b)

\* What a function returning i16 hands back: the value, or no value because
\* an arithmetic overflow check of the build panicked.
Value(x) == [kind |-> "value", value |-> x]
Panic == [kind |-> "panic", value |-> 0]

\* i16::abs: the least i16 has no absolute value; the build either panics
\* or returns it as it is.
abs(x) == IF x >= 0 THEN x ELSE IF x = I16Min THEN I16Min ELSE -x

RECURSIVE InsertSorted(_, _)
InsertSorted(x, s) ==
    IF s = <<>> THEN <<x>>
    ELSE IF x <= Head(s) THEN <<x>> \o s
    ELSE <<Head(s)>> \o InsertSorted(x, Tail(s))

\* [i16]::sort_unstable: ascending order.
RECURSIVE sort_unstable(_)
sort_unstable(s) ==
    IF s = <<>> THEN <<>> ELSE InsertSorted(Head(s), sort_unstable(Tail(s)))

\* The slice as trimmed_median_error leaves it: every element replaced by
\* its abs, then sorted.
AbsSorted(vs) == sort_unstable([i \in 1..Len(vs) |-> abs(vs[i])])

\* trimmed_median_error(values) in a build with (checks) or without
\* overflow checks.  Indices are one more than the code's.
trimmed_median_error(vs, checks) ==
    IF Len(vs) < 4 THEN Value(I16Max)
    ELSE IF checks /\ \E i \in 1..Len(vs) : vs[i] = I16Min THEN Panic
    ELSE LET len == Len(vs)
             trim_end == (len * 3) \div 4
             trimmed == SubSeq(AbsSorted(vs), 1, trim_end)
         IN  IF trim_end % 2 = 1
             THEN Value(trimmed[trim_end \div 2 + 1])
             ELSE LET mid_upper == trimmed[trim_end \div 2 + 1]
                      mid_lower == trimmed[trim_end \div 2]
                  IN  IF InI16(mid_upper + mid_lower)
                      THEN Value(DivTrunc(mid_upper + mid_lower, 2))
                      ELSE IF checks THEN Panic
                      ELSE Value(DivTrunc(WrapI16(mid_upper + mid_lower), 2))

\* All lists of at most n elements of S.
SeqsUpTo(S, n) == UNION {[1..k -> S] : k \in 0..n}

(* The function on its own: any list of samples, either build.             *)

InitScore ==
    /\ AccountData = <<>>
    /\ AddressRegistrationData = <<>>
    /\ ServerConfig = <<>>
    /\ RssiData = <<>>
    /\ block_number = 1
    /\ call = [name |-> "genesis"]
    /\ result = "Ok"
    /\ events = <<>>
    /\ overflow_checks \in BOOLEAN
    /\ values \in SeqsUpTo(ErrorSamples, MaxSamples)
    /\ query = [name |-> "none"]
    /\ score = NoScore
    /\ InitScanning
    /\ InitNeighbors
    /\ InitWorker
    /\ InitLocking

\* One call of trimmed_median_error(&mut values).  A panic unwinds and the
\* slice is dropped with its owner; otherwise the slice is left as the
\* function rewrote it.
CallTrimmedMedianError ==
    /\ query.name = "none"
    /\ query' = [name |-> "trimmed_median_error", values |-> values]
    /\ score' = trimmed_median_error(values, overflow_checks)
    /\ values' = IF Len(values) < 4 \/ score' = Panic
                 THEN values ELSE AbsSorted(values)
    /\ UNCHANGED <<chain, overflow_checks, scanning, neighbors, worker, locking>>

NextScore == CallTrimmedMedianError

SpecScore == InitScore /\ [][NextScore]_vars


(* Properties of the trust score.                                          *)

\* The magnitudes of a list of samples, ascending.
Magnitudes(vs) == sort_unstable([i \in 1..Len(vs) |-> Abs(vs[i])])

\* The magnitudes the score keeps: the lowest floor(3 * len / 4) of them.
Kept(vs) == SubSeq(Magnitudes(vs), 1, (3 * Len(vs)) \div 4)

\* The median of a non-empty ascending list: its central element, or the
\* integer average of its two central elements.
MedianOf(s) ==
    IF Len(s) % 2 = 1 THEN s[(Len(s) + 1) \div 2]
    ELSE (s[Len(s) \div 2] + s[Len(s) \div 2 + 1]) \div 2

\* C12: for every list of i16 samples trimmed_median_error returns i16::MAX
\* when the list has fewer than 4 elements, and otherwise the median of the
\* lowest floor(3 * len / 4) magnitudes of the list.
C12_TrimmedMedian ==
    query.name = "trimmed_median_error" =>
        score = IF Len(query.values) < 4 THEN Value(I16Max)
                ELSE Value(MedianOf(Kept(query.values)))

\* C13: for a list of at least 4 samples, putting any sample of larger
\* magnitude in the place of one of the len - floor(3 * len / 4) samples of
\* largest magnitude leaves the score as it was, and the score is a value
\* no larger than the largest magnitude kept.
C13_TopQuartileIgnored ==
    (query.name = "trimmed_median_error" /\ Len(query.values) >= 4) =>
        LET vs == query.values
            len == Len(vs)
            trim_end == (3 * len) \div 4
            Larger(i) == {j \in 1..len : Abs(vs[j]) > Abs(vs[i])}
            Top == {i \in 1..len : Cardinality(Larger(i)) < len - trim_end}
        IN  /\ score.kind = "value"
            /\ score.value <= Kept(vs)[trim_end]
            /\ \A i \in Top, v \in ErrorSamples :
                   Abs(v) > Abs(vs[i]) =>
                       trimmed_median_error([vs EXCEPT ![i] = v],
                                            overflow_checks) = score


---------------------------------------------------------------------------
(* The trust score query of the runtime API, over the registry and the     *)
(* RSSI store: rpc_impl.rs.                                                *)

\* Five nodes standing at one place, each with its own radio, so that a
\* node can have from no reporter to four.
ScoreAccounts == {"alice", "bob", "carol", "dave", "erin"}
ScoreRadioOf ==
    [a \in ScoreAccounts |->
        CASE a = "alice" -> "11:22:33:44:55:66"
          [] a = "bob"   -> "AA:BB:CC:DD:EE:FF"
          [] a = "carol" -> "01:02:03:04:05:06"
          [] a = "dave"  -> "0A:0B:0C:0D:0E:0F"
          [] a = "erin"  -> "10:20:30:40:50:60"]
\* The nodes reported on.
ScoreSubjects == {"alice"}

\* estimate_rssi for two nodes at distance 0, the only distance between
\* the nodes of SpecTrust: the path loss model is not applied and the
\* estimate is 0.0 as i16, whatever ReferenceRssi and PathLossExponent are
\* (neither has a value in the sources).
estimate_rssi(a_lat, a_lon, b_lat, b_lon) ==
    CASE DistanceSquaredMm([latitude |-> a_lat, longitude |-> a_lon],
                           [latitude |-> b_lat, longitude |-> b_lon]) = 0 -> 0

\* Faulty variant: the account itself is not skipped.
ReportersOf_with_self(block, account) ==
    {reporter_account \in DOMAIN AccountData :
        contains_key(RssiData, <<block, account, reporter_account>>)}

\* The reporters whose measurement of account in the block is read: every
\* registered account but account itself with an RssiData entry.
ReportersOf(block, account) ==
    {reporter_account \in DOMAIN AccountData \ {account} :
        contains_key(RssiData, <<block, account, reporter_account>>)}

\* measured_rssi - estimated_rssi for one reporter.
ErrorOf(block, account, reporter_account) ==
    RssiData[<<block, account, reporter_account>>]
        - estimate_rssi(AccountData[account].latitude,
                        AccountData[account].longitude,
                        AccountData[reporter_account].latitude,
                        AccountData[reporter_account].longitude)

\* The errors pushed while iterating AccountData, in one order of iteration
\* (trimmed_median_error sorts them).
RECURSIVE ErrorsOf(_, _, _)
ErrorsOf(block, account, reporters) ==
    IF reporters = {} THEN <<>>
    ELSE LET r == CHOOSE x \in reporters : TRUE
         IN  <<ErrorOf(block, account, r)>>
                 \o ErrorsOf(block, account, reporters \ {r})

Some(x) == [kind |-> "Some", value |-> x]

\* calculate_trust_score_for_account(block_number, account): None, Some(i16)
\* or a panic of the arithmetic.
calculate_trust_score_for_account(block, account) ==
    IF ~contains_key(AccountData, account) THEN NoScore
    ELSE LET errors == ErrorsOf(block, account, ReportersOf(block, account))
             wrapped == [i \in 1..Len(errors) |-> WrapI16(errors[i])]
         IN  IF overflow_checks /\ \E i \in 1..Len(errors) : ~InI16(errors[i])
             THEN Panic
             ELSE IF errors = <<>> THEN NoScore
             ELSE LET median == trimmed_median_error(wrapped, overflow_checks)
                  IN  IF median = Panic THEN Panic ELSE Some(median.value)

\* The runtime API call calculate_trust_score(block_number, account).
calculate_trust_score(block, account) ==
    /\ query' = [name |-> "calculate_trust_score", block_number |-> block,
                 account |-> account]
    /\ score' = calculate_trust_score_for_account(block, account)
    /\ UNCHANGED <<chain, overflow_checks, values, scanning, neighbors, worker, locking>>

\* calculate_all_trust_scores(block_number): the (account, score) pairs of
\* the accounts whose score is Some, or a panic if one computation panics.
calculate_all_trust_scores(block) ==
    /\ query' = [name |-> "calculate_all_trust_scores", block_number |-> block]
    /\ score' =
           IF \E account \in DOMAIN AccountData :
                  calculate_trust_score_for_account(block, account) = Panic
           THEN Panic
           ELSE [kind |-> "Vec",
                 value |-> {<<account,
                              calculate_trust_score_for_account(block, account).value>> :
                            account \in {a \in DOMAIN AccountData :
                                calculate_trust_score_for_account(block, a).kind = "Some"}}]
    /\ UNCHANGED <<chain, overflow_checks, values, scanning, neighbors, worker, locking>>

InitTrust ==
    /\ AccountData = <<>>
    /\ AddressRegistrationData = <<>>
    /\ ServerConfig = <<>>
    /\ RssiData = <<>>
    /\ block_number = 1
    /\ call = [name |-> "genesis"]
    /\ result = "Ok"
    /\ events = <<>>
    /\ overflow_checks \in BOOLEAN
    /\ values = <<>>
    /\ query = [name |-> "none"]
    /\ score = NoScore
    /\ InitScanning
    /\ InitNeighbors
    /\ InitWorker
    /\ InitLocking

NextTrust ==
    \/ \E who \in ScoreAccounts :
           register_node(who, ScoreRadioOf[who], 0, 0) /\ UNCHANGED offchain
    \/ \E who \in ScoreAccounts, neighbor \in ScoreSubjects, rssi \in RssiValues :
           publish_rssi_data(who, neighbor, rssi) /\ UNCHANGED offchain
    \/ \E account \in ScoreAccounts :
           calculate_trust_score(block_number, account)
    \/ calculate_all_trust_scores(block_number)

SpecTrust == InitTrust /\ [][NextTrust]_vars

\* C14: when fewer than 4 registered reporters other than the account have
\* an RssiData entry about it in the queried block, calculate_trust_score
\* returns None, and calculate_all_trust_scores lists no score for it.
C14_UndefinedBelowFour ==
    [][/\ (/\ query'.name = "calculate_trust_score"
           /\ UNCHANGED chain
           /\ Cardinality(ReportersOf(query'.block_number, query'.account)) < 4)
          => score' = NoScore
       /\ (/\ query'.name = "calculate_all_trust_scores"
           /\ UNCHANGED chain
           /\ score'.kind = "Vec")
          => \A pair \in score'.value :
                 Cardinality(ReportersOf(query'.block_number, pair[1])) >= 4]_vars


---------------------------------------------------------------------------
(* The scanning engine of the sensing server: bluetooth.rs.                *)
(*                                                                         *)
(* One action is one arm of the discovery loop, one signal event handled   *)
(* by a peer's task, or one query, each run to completion.                 *)

\* All windows together have been pushed to at most MaxPushes times.
MaxPushes == 7

MAX_RSSI_QUEUE_SIZE == 5

\* The peers within range of the local node; the radios discovered are
\* those of Addresses.
ScanNeighbors == {"AA:BB:CC:DD:EE:FF", "01:02:03:04:05:06"}

\* What device.rssi() can give: Err, or Ok with the reading, None read as 0.
Readings ==
    {[ok |-> FALSE, rssi |-> 0]}
        \cup {[ok |-> TRUE, rssi |-> r] : r \in RssiValues \cup {0}}

get(map, key) == IF contains_key(map, key) THEN map[key] ELSE <<>>

\* Faulty variant: a full window drops its newest sample.
PushDropsNewest(data, addr, rssi) ==
    LET deque == get(data, addr)
        kept == IF Len(deque) >= MAX_RSSI_QUEUE_SIZE
                THEN SubSeq(deque, 1, Len(deque) - 1) ELSE deque
    IN  insert(data, addr, Append(kept, rssi))

\* data.entry(addr).or_insert_with(VecDeque::new), pop_front() when the
\* deque is full, push_back(rssi).
Push(data, addr, rssi) ==
    LET deque == get(data, addr)
        kept == IF Len(deque) >= MAX_RSSI_QUEUE_SIZE THEN Tail(deque) ELSE deque
    IN  insert(data, addr, Append(kept, rssi))

\* The record of every push into the window of addr.
Record(addr, rssi) == insert(pushed, addr, Append(get(pushed, addr), rssi))

RECURSIVE SumLen(_, _)
SumLen(map, keys) ==
    IF keys = {} THEN 0
    ELSE LET k == CHOOSE x \in keys : TRUE
         IN  Len(map[k]) + SumLen(map, keys \ {k})

\* The bound on the pushes.
PushRoom == SumLen(pushed, DOMAIN pushed) < MaxPushes

\* The event the discovery loop took from the adapter; spawned is whether
\* handling it started a task.
DeviceAddedEvent(addr, spawned) ==
    [kind |-> "DeviceAdded", addr |-> addr, spawned |-> spawned]
DeviceRemovedEvent(addr) ==
    [kind |-> "DeviceRemoved", addr |-> addr, spawned |-> FALSE]

\* AdapterEvent::DeviceAdded(addr).  device is whether adapter.device(addr)
\* succeeded, reading what device.rssi() gave, subscribed whether the
\* task's device.events() succeeded.
DeviceAdded(addr, device, reading, subscribed) ==
    /\ scan_devices_result = "running"
    /\ response' = NoResponse
    /\ discovered' = discovered \cup {addr}
    /\ UNCHANGED <<chain, scoring, neighbors, worker, locking, in_flight, rssi_data_snapshot>>
    /\ IF addr \notin neighbor_addresses \/ contains_key(device_tasks, addr)
       THEN /\ adapter_event' = DeviceAddedEvent(addr, FALSE)
            /\ UNCHANGED <<rssi_data, device_tasks, pushed, scan_devices_result>>
       ELSE IF ~device \/ ~reading.ok
       THEN /\ scan_devices_result' = "Err"
            /\ adapter_event' = DeviceAddedEvent(addr, FALSE)
            /\ UNCHANGED <<rssi_data, device_tasks, pushed>>
       ELSE /\ adapter_event' = DeviceAddedEvent(addr, TRUE)
            /\ IF reading.rssi # 0
               THEN /\ PushRoom
                    /\ rssi_data' = Push(rssi_data, addr, reading.rssi)
                    /\ pushed' = Record(addr, reading.rssi)
               ELSE UNCHANGED <<rssi_data, pushed>>
            /\ device_tasks' = insert(device_tasks, addr,
                                      IF subscribed THEN "listening" ELSE "finished")
            /\ UNCHANGED scan_devices_result

\* DeviceEvent::PropertyChanged(DeviceProperty::Rssi(rssi)) in the task of
\* addr.
RssiChanged(addr, rssi) ==
    /\ contains_key(device_tasks, addr)
    /\ device_tasks[addr] = "listening"
    /\ ~contains_key(in_flight, addr)
    /\ PushRoom
    /\ rssi_data' = Push(rssi_data, addr, rssi)
    /\ pushed' = Record(addr, rssi)
    /\ response' = NoResponse
    /\ adapter_event' = NoEvent
    /\ UNCHANGED <<chain, scoring, neighbors, worker, locking, device_tasks, scan_devices_result,
                   in_flight, rssi_data_snapshot, discovered>>

\* The event stream of the task of addr ends: the task returns, its handle
\* stays in device_tasks.
StreamEnded(addr) ==
    /\ contains_key(device_tasks, addr)
    /\ device_tasks[addr] = "listening"
    /\ ~contains_key(in_flight, addr)
    /\ device_tasks' = insert(device_tasks, addr, "finished")
    /\ response' = NoResponse
    /\ adapter_event' = NoEvent
    /\ UNCHANGED <<chain, scoring, neighbors, worker, locking, rssi_data, pushed, scan_devices_result,
                   in_flight, rssi_data_snapshot, discovered>>

\* AdapterEvent::DeviceRemoved(addr).
DeviceRemoved(addr) ==
    /\ scan_devices_result = "running"
    /\ device_tasks' = remove(device_tasks, addr)
    /\ rssi_data' = remove(rssi_data, addr)
    /\ pushed' = remove(pushed, addr)
    /\ response' = NoResponse
    /\ adapter_event' = DeviceRemovedEvent(addr)
    /\ discovered' = discovered \ {addr}
    /\ UNCHANGED <<chain, scoring, neighbors, worker, locking, scan_devices_result, in_flight,
                   rssi_data_snapshot>>

\* Faulty variant: the central element of the window as it stands.
calculate_median_unsorted(vs) ==
    LET len == Len(vs)
    IN  IF len % 2 = 0
        THEN LET sum == vs[len \div 2] + vs[len \div 2 + 1]
             IN  IF InI16(sum) THEN Value(DivTrunc(sum, 2))
                 ELSE IF overflow_checks THEN Panic
                 ELSE Value(DivTrunc(WrapI16(sum), 2))
        ELSE Value(vs[len \div 2 + 1])

\* calculate_median(values) for a non-empty values.  Indices are one more
\* than the code's.
calculate_median(vs) ==
    LET sorted == sort_unstable(vs)
        len == Len(sorted)
    IN  IF len % 2 = 0
        THEN LET sum == sorted[len \div 2] + sorted[len \div 2 + 1]
             IN  IF InI16(sum) THEN Value(DivTrunc(sum, 2))
                 ELSE IF overflow_checks THEN Panic
                 ELSE Value(DivTrunc(WrapI16(sum), 2))
        ELSE Value(sorted[len \div 2 + 1])

DeviceRssi(address, rssi) == [address |-> address, rssi |-> rssi]

\* The reply current_rssi computes from its clone of the map: the median of
\* every non-empty window, one DeviceRssi for each address.
RssiResponse(snapshot) ==
    LET reported == {address \in DOMAIN snapshot : snapshot[address] # <<>>}
    IN  IF \E a \in reported : calculate_median(snapshot[a]) = Panic
        THEN [kind |-> "panic", devices |-> {}]
        ELSE [kind |-> "Ok",
              devices |-> {DeviceRssi(a, calculate_median(snapshot[a]).value) :
                              a \in reported}]

\* current_rssi(rssi_data): the medians of a clone of the map, taken in one
\* step.
current_rssi ==
    /\ response' = RssiResponse(rssi_data)
    /\ adapter_event' = NoEvent
    /\ UNCHANGED <<chain, scoring, neighbors, worker, locking, rssi_data, device_tasks, pushed,
                   scan_devices_result, in_flight, rssi_data_snapshot, discovered>>

InitScan ==
    /\ AccountData = <<>>
    /\ AddressRegistrationData = <<>>
    /\ ServerConfig = <<>>
    /\ RssiData = <<>>
    /\ block_number = 1
    /\ call = [name |-> "genesis"]
    /\ result = "Ok"
    /\ events = <<>>
    /\ InitScoring
    /\ InitScanning
    /\ InitWorker
    /\ InitLocking
    /\ our_bluetooth_address = "11:22:33:44:55:66"
    /\ neighbor_addresses = ScanNeighbors
    /\ notification = [event |-> "none"]
    /\ deliveries = 0

NextScan ==
    \/ \E addr \in Addresses, device \in BOOLEAN, reading \in Readings,
          subscribed \in BOOLEAN :
           DeviceAdded(addr, device, reading, subscribed)
    \/ \E addr \in Addresses, rssi \in RssiValues :
           RssiChanged(addr, rssi)
    \/ \E addr \in Addresses : StreamEnded(addr)
    \/ \E addr \in Addresses : DeviceRemoved(addr)
    \/ current_rssi

SpecScan == InitScan /\ [][NextScan]_vars


(* Properties of the scanning engine.                                      *)

Min(a, b) == IF a <= b THEN a ELSE b

\* C15: every window holds at most 5 samples and is, in order of arrival,
\* the last min(n, 5) of the n samples pushed into it since it was created
\* (the seed reading and the signal events after it).
C15_WindowIsLastFive ==
    /\ DOMAIN rssi_data = DOMAIN pushed
    /\ \A addr \in DOMAIN rssi_data :
           LET n == Len(pushed[addr])
           IN  /\ Len(rssi_data[addr]) <= 5
               /\ rssi_data[addr] = SubSeq(pushed[addr], n - Min(n, 5) + 1, n)

\* A window after 7 pushes, the oldest two of which are gone; the third
\* pushed, now the oldest held, differs from the first.
C15_Witness ==
    \E addr \in DOMAIN rssi_data :
        /\ Len(pushed[addr]) = 7
        /\ rssi_data[addr] = SubSeq(pushed[addr], 3, 7)
        /\ pushed[addr][1] # pushed[addr][3]

\* m is the median of the non-empty window w: the central element of the
\* sorted samples, or an integer next to the mean of the two central ones.
IsMedianOf(m, w) ==
    LET s == sort_unstable(w)
        n == Len(s)
    IN  IF n % 2 = 1 THEN m = s[(n + 1) \div 2]
        ELSE Abs(2 * m - (s[n \div 2] + s[n \div 2 + 1])) <= 1

\* C16: current_rssi returns one entry for every peer with a non-empty
\* window, holding the median of the window, no entry for any other peer,
\* and leaves the windows as they were.
C16_CurrentRssiMedian ==
    [][response'.kind # "none" =>
         /\ response'.kind = "Ok"
         /\ rssi_data' = rssi_data
         /\ {d.address : d \in response'.devices}
                = {a \in DOMAIN rssi_data : rssi_data[a] # <<>>}
         /\ \A d \in response'.devices :
                /\ IsMedianOf(d.rssi, rssi_data[d.address])
                /\ \A e \in response'.devices : e.address = d.address => e = d]_vars

\* A reply with the median of a window of odd length whose central sample
\* is not the median, and of a window of even length whose central samples
\* differ.
C16_Witness ==
    /\ response.kind = "Ok"
    /\ \E d \in response.devices :
           LET w == rssi_data[d.address]
           IN  Len(w) % 2 = 1 /\ w[(Len(w) + 1) \div 2] # d.rssi
    /\ \E d \in response.devices :
           LET w == rssi_data[d.address]
           IN  Len(w) % 2 = 0 /\ w[Len(w) \div 2] # w[Len(w) \div 2 + 1]


---------------------------------------------------------------------------
(* The neighbor set of the sensing server: neighbor.rs.                    *)
(*                                                                         *)
(* The server takes a snapshot of AccountData when it starts and from then *)
(* on handles the events of the chain in the order they were deposited: a  *)
(* step of SpecNeighbors is one extrinsic together with the handling of    *)
(* the event it deposited.                                                 *)

\* get_our_location(): LATITUDE and LONGITUDE, 0.0 when not set.
OurLocation == [latitude |-> 0, longitude |-> 0]

\* calculate_distance_from_us(latitude, longitude) <= max_distance as f64
InRange(latitude, longitude) ==
    WithinMaxDistance(OurLocation, [latitude |-> latitude, longitude |-> longitude])

\* calculate_neighbors: the addresses of the registered nodes in range,
\* but for our own.
calculate_neighbors(all_location_data) ==
    {all_location_data[a].address : a \in
        {b \in DOMAIN all_location_data :
            /\ all_location_data[b].address # our_bluetooth_address
            /\ InRange(all_location_data[b].latitude,
                       all_location_data[b].longitude)}}

\* Faulty variant: the node is added at any distance.
handle_node_in_range_any_distance(addresses, address, latitude, longitude) ==
    addresses \cup {address}

\* Faulty variant: an address already present is taken out.
handle_node_in_range_toggles(addresses, address, latitude, longitude) ==
    IF InRange(latitude, longitude)
    THEN IF address \in addresses
         THEN addresses \ {address}
         ELSE addresses \cup {address}
    ELSE addresses

handle_node_in_range(addresses, address, latitude, longitude) ==
    IF InRange(latitude, longitude)
    THEN addresses \cup {address}
    ELSE addresses

handle_node_out_of_range(addresses, address, latitude, longitude) ==
    IF ~InRange(latitude, longitude)
    THEN addresses \ {address}
    ELSE addresses

\* The arm of the listener for NodeRegistered.
OnNodeRegistered(addresses, e) ==
    IF e.address = our_bluetooth_address THEN addresses
    ELSE handle_node_in_range(addresses, e.address, e.latitude, e.longitude)

\* Faulty variant: every neighbor is dropped.
OnNodeUnregisteredClears(addresses, e) ==
    IF e.address = our_bluetooth_address THEN addresses
    ELSE {}

\* The arm of the listener for NodeUnregistered.
OnNodeUnregistered(addresses, e) ==
    IF e.address = our_bluetooth_address THEN addresses
    ELSE addresses \ {e.address}

\* Faulty variant: the old address is left in the set.
OnNodeUpdatedKeepsOld(addresses, e) ==
    IF e.new_address = our_bluetooth_address THEN addresses
    ELSE IF InRange(e.new_latitude, e.new_longitude)
         THEN handle_node_in_range(addresses, e.new_address,
                                   e.new_latitude, e.new_longitude)
         ELSE handle_node_out_of_range(addresses, e.new_address,
                                       e.new_latitude, e.new_longitude)

\* The arm of the listener for NodeUpdated.
OnNodeUpdated(addresses, e) ==
    IF e.new_address = our_bluetooth_address THEN addresses
    ELSE LET removed == IF e.old_address # e.new_address
                        THEN addresses \ {e.old_address}
                        ELSE addresses
         IN  IF InRange(e.new_latitude, e.new_longitude)
             THEN handle_node_in_range(removed, e.new_address,
                                       e.new_latitude, e.new_longitude)
             ELSE handle_node_out_of_range(removed, e.new_address,
                                           e.new_latitude, e.new_longitude)

\* One event of a finalized block, handled by the listener.
OnEvent(addresses, e) ==
    CASE e.event = "NodeRegistered"   -> OnNodeRegistered(addresses, e)
      [] e.event = "NodeUnregistered" -> OnNodeUnregistered(addresses, e)
      [] e.event = "NodeUpdated"      -> OnNodeUpdated(addresses, e)
      [] OTHER                        -> addresses

\* The server starts: the neighbor set is the snapshot of the registry.
Startup ==
    /\ notification.event = "none"
    /\ neighbor_addresses' = calculate_neighbors(AccountData)
    /\ notification' = [event |-> "snapshot"]
    /\ deliveries' = 0
    /\ UNCHANGED <<chain, scoring, scanning, worker, locking, our_bluetooth_address>>

\* What the extrinsic of this step means to the server: nothing before it
\* has started, then the handling of the event deposited, if any.
Listener ==
    /\ UNCHANGED <<scoring, scanning, worker, locking, our_bluetooth_address>>
    /\ IF notification.event = "none"
       THEN UNCHANGED <<neighbor_addresses, notification, deliveries>>
       ELSE IF events' = <<>>
       THEN /\ notification' = [event |-> "idle"]
            /\ deliveries' = 0
            /\ UNCHANGED neighbor_addresses
       ELSE /\ notification' = events'[1]
            /\ deliveries' = 1
            /\ neighbor_addresses' = OnEvent(neighbor_addresses, events'[1])

NextNeighbors ==
    \/ \E who \in Accounts, address \in Addresses, c \in Coordinates :
           register_node(who, address, c[1], c[2]) /\ Listener
    \/ \E who \in Accounts :
           unregister_node(who) /\ Listener
    \/ \E who \in Accounts, address \in Addresses, c \in Coordinates :
           update_node_info(who, address, c[1], c[2]) /\ Listener
    \/ Startup

SpecNeighbors == Init /\ [][NextNeighbors]_vars

\* Notifications are handled at most MaxDeliveries times in a row.
MaxDeliveries == 2

\* The listener is handed again the event of the extrinsic dispatched last:
\* the one it has just handled (a block seen again after it subscribed
\* anew), or one deposited before the snapshot was taken and so already
\* part of it.
Redeliver ==
    /\ notification.event \notin {"none", "idle"}
    /\ events # <<>>
    /\ deliveries < MaxDeliveries
    /\ notification' = events[1]
    /\ deliveries' = deliveries + 1
    /\ neighbor_addresses' = OnEvent(neighbor_addresses, events[1])
    /\ UNCHANGED <<chain, scoring, scanning, worker, locking, our_bluetooth_address>>

NextRedeliver ==
    \/ NextNeighbors
    \/ Redeliver

SpecRedeliver == Init /\ [][NextRedeliver]_vars


(* Properties of the neighbor set.                                         *)

\* The step handled a notification of this kind.
Handled(kind) == notification'.event = kind

\* C17: after a NodeRegistered notification for a peer other than the
\* local node, the peer's address is in the neighbor set if the peer is
\* within the maximum distance of the local coordinates, and the set is as
\* it was if the peer is farther.
C17_RegisteredInRange ==
    [][(Handled("NodeRegistered")
            /\ notification'.address # our_bluetooth_address) =>
         IF InRange(notification'.latitude, notification'.longitude)
         THEN notification'.address \in neighbor_addresses'
         ELSE neighbor_addresses' = neighbor_addresses]_vars

\* A peer registered within range is in the set.
C17_Witness ==
    /\ notification.event = "NodeRegistered"
    /\ notification.address # our_bluetooth_address
    /\ InRange(notification.latitude, notification.longitude)
    /\ notification.address \in neighbor_addresses

\* C18: after a NodeUnregistered notification for a peer the peer's address
\* is not in the neighbor set, and no other address was added or removed.
C18_UnregisteredRemoved ==
    [][(Handled("NodeUnregistered")
            /\ notification'.address # our_bluetooth_address) =>
         neighbor_addresses' = neighbor_addresses \ {notification'.address}]_vars

\* A peer was unregistered and is gone while another neighbor stays.
C18_Witness ==
    /\ notification.event = "NodeUnregistered"
    /\ notification.address # our_bluetooth_address
    /\ notification.address \notin neighbor_addresses
    /\ neighbor_addresses # {}

\* C19: after a NodeUpdated notification about a node other than the local
\* node (neither address of it is the local radio address) the old address
\* is not in the neighbor set if the address changed, and the new address
\* is in the set exactly when the new coordinates are within range.
C19_UpdatedFollowsRange ==
    [][(/\ Handled("NodeUpdated")
        /\ notification'.old_address # our_bluetooth_address
        /\ notification'.new_address # our_bluetooth_address) =>
         /\ notification'.old_address # notification'.new_address
                => notification'.old_address \notin neighbor_addresses'
         /\ notification'.new_address \in neighbor_addresses'
                <=> InRange(notification'.new_latitude,
                            notification'.new_longitude)]_vars

\* A peer changed its address within range: the new address is in the set,
\* the old one is not.
C19_Witness ==
    /\ notification.event = "NodeUpdated"
    /\ notification.old_address # our_bluetooth_address
    /\ notification.new_address # our_bluetooth_address
    /\ notification.old_address # notification.new_address
    /\ InRange(notification.old_latitude, notification.old_longitude)
    /\ InRange(notification.new_latitude, notification.new_longitude)
    /\ notification.new_address \in neighbor_addresses
    /\ notification.old_address \notin neighbor_addresses

\* The notification names the local radio address.
AboutLocalNode(e) ==
    \/ e.event \in {"NodeRegistered", "NodeUnregistered"}
           /\ e.address = our_bluetooth_address
    \/ e.event = "NodeUpdated"
           /\ our_bluetooth_address \in {e.old_address, e.new_address}

\* C20: the local radio address is never in the neighbor set, neither by
\* the snapshot nor by a notification, and a notification naming the local
\* address, as the address or as the old or new address, leaves the set as
\* it was.
C20_NeverTracksItself ==
    [][/\ our_bluetooth_address \notin neighbor_addresses'
       /\ AboutLocalNode(notification') =>
              neighbor_addresses' = neighbor_addresses]_vars


NodeEvents == {"NodeRegistered", "NodeUnregistered", "NodeUpdated"}

\* C21: a notification handled a second time in a row, and a
\* NodeRegistered handled for a peer that the snapshot just taken already
\* holds, leave the neighbor set as it was after the first handling.
C21_HandlingIdempotent ==
    [][(/\ UNCHANGED chain
        /\ notification'.event \in NodeEvents
        /\ \/ deliveries' >= 2
           \/ /\ notification.event = "snapshot"
              /\ notification'.event = "NodeRegistered"
              /\ notification'.address \in neighbor_addresses)
       => neighbor_addresses' = neighbor_addresses]_vars

\* A NodeUpdated that moved a neighbor to another address within range has
\* been handled twice in a row.
C21_Witness ==
    /\ deliveries = 2
    /\ notification.event = "NodeUpdated"
    /\ notification.old_address # notification.new_address
    /\ notification.old_address # our_bluetooth_address
    /\ notification.new_address \in neighbor_addresses

\* The addresses of the registered nodes within range of the local
\* coordinates, the local node's aside.
RegisteredInRange ==
    {AccountData[a].address : a \in
        {b \in DOMAIN AccountData :
            /\ AccountData[b].address # our_bluetooth_address
            /\ WithinMaxDistance(OurLocation, AccountData[b])}}

\* C22: once the server has started and the notifications of all calls so
\* far are handled, the neighbor set is the set of the addresses of the
\* registered nodes within range, the local node's aside.
C22_RefinesRegistry ==
    notification.event # "none" => neighbor_addresses = RegisteredInRange


(* C25: a failure to read a discovered peer's properties never terminates the
   discovery loop: whatever the handling of a peer-discovered event meets,
   scan_devices is still running after it and keeps consuming events. *)
C25_ReadFailureNotFatal ==
    [][adapter_event'.kind = "DeviceAdded" =>
           scan_devices_result' = "running"]_vars

(* C26: a peer whose subscription failed or whose event stream ended counts as
   not tracked: the next peer-discovered event for it, while it is still a
   neighbor, starts a new observation task. *)
C26_FinishedTaskRestarted ==
    [][(/\ adapter_event'.kind = "DeviceAdded"
        /\ adapter_event'.addr \in neighbor_addresses
        /\ contains_key(device_tasks, adapter_event'.addr)
        /\ device_tasks[adapter_event'.addr] = "finished")
           => adapter_event'.spawned]_vars



(* The observation tasks of the scanning engine, step by step            *)
(* (src/server/src/bluetooth.rs).  A task takes a signal event from its   *)
(* stream and then locks the map to push it; the discovery loop and the   *)
(* query run between the two.  task.abort() takes effect where the task   *)
(* next yields: a task aborted with an event taken either is cancelled    *)
(* waiting for the lock or, already running, gets the lock and pushes.    *)

\* events.next().await of the task of addr yields PropertyChanged(Rssi(rssi)).
TaskReceives(addr, rssi) ==
    /\ contains_key(device_tasks, addr)
    /\ device_tasks[addr] = "listening"
    /\ ~contains_key(in_flight, addr)
    /\ in_flight' = insert(in_flight, addr, rssi)
    /\ response' = NoResponse
    /\ adapter_event' = NoEvent
    /\ UNCHANGED <<chain, scoring, neighbors, worker, locking, rssi_data, device_tasks, pushed,
                   scan_devices_result, rssi_data_snapshot, discovered>>

\* The task holding a reading of addr gets the lock and pushes it.
TaskPushes(addr) ==
    /\ contains_key(in_flight, addr)
    /\ PushRoom
    /\ rssi_data' = Push(rssi_data, addr, in_flight[addr])
    /\ pushed' = Record(addr, in_flight[addr])
    /\ in_flight' = remove(in_flight, addr)
    /\ response' = NoResponse
    /\ adapter_event' = NoEvent
    /\ UNCHANGED <<chain, scoring, neighbors, worker, locking, device_tasks, scan_devices_result,
                   rssi_data_snapshot, discovered>>

\* The aborted task holding a reading of addr is dropped where it waits for
\* the lock.
TaskCancelled(addr) ==
    /\ contains_key(in_flight, addr)
    /\ ~contains_key(device_tasks, addr)
    /\ in_flight' = remove(in_flight, addr)
    /\ response' = NoResponse
    /\ adapter_event' = NoEvent
    /\ UNCHANGED <<chain, scoring, neighbors, worker, locking, rssi_data, device_tasks, pushed,
                   scan_devices_result, rssi_data_snapshot, discovered>>

NextTasks ==
    \/ \E addr \in ScanNeighbors, reading \in Readings, subscribed \in BOOLEAN :
           DeviceAdded(addr, TRUE, reading, subscribed)
    \/ \E addr \in ScanNeighbors, rssi \in RssiValues : TaskReceives(addr, rssi)
    \/ \E addr \in ScanNeighbors : TaskPushes(addr)
    \/ \E addr \in ScanNeighbors : TaskCancelled(addr)
    \/ \E addr \in ScanNeighbors : StreamEnded(addr)
    \/ \E addr \in ScanNeighbors : DeviceRemoved(addr)
    \/ current_rssi

SpecTasks == InitScan /\ [][NextTasks]_vars

(* C23: once the handling of a peer-lost event has completed the peer has no
   observation task and no window, and none reappears until a later
   peer-discovered event for that peer: a peer with neither gets a task or a
   window only in the handling of a peer-discovered event for it. *)
C23_NoResurrection ==
    [][\A addr \in Addresses :
           (/\ ~contains_key(device_tasks, addr)
            /\ ~contains_key(rssi_data, addr)
            /\ ~(adapter_event'.kind = "DeviceAdded" /\ adapter_event'.addr = addr))
               => /\ ~contains_key(device_tasks', addr)
                  /\ ~contains_key(rssi_data', addr)]_vars



(* The scanning engine next to the neighbor listener: the registry changes *)
(* the neighbor set while the discovery loop runs                           *)
(* (src/server/src/neighbor.rs, src/server/src/bluetooth.rs).  The adapter  *)
(* announces a radio once and again only after it lost it; windows hold     *)
(* the reading taken at discovery.  The discovery loop runs once the server *)
(* has started.                                                             *)

TrackAccounts == {"alice"}

\* The adapter announces the radio addr, which it did not know.
Announced(addr, reading) ==
    /\ notification.event # "none"
    /\ addr \notin discovered
    /\ DeviceAdded(addr, TRUE, reading, TRUE)

\* The adapter loses the radio addr.
Lost(addr) ==
    /\ notification.event # "none"
    /\ addr \in discovered
    /\ DeviceRemoved(addr)

NextTrack ==
    \/ \E who \in TrackAccounts, address \in Addresses, c \in Coordinates :
           register_node(who, address, c[1], c[2]) /\ Listener
    \/ \E who \in TrackAccounts :
           unregister_node(who) /\ Listener
    \/ \E who \in TrackAccounts, address \in Addresses, c \in Coordinates :
           update_node_info(who, address, c[1], c[2]) /\ Listener
    \/ Startup
    \/ \E addr \in Addresses, reading \in {r \in Readings : r.ok} :
           Announced(addr, reading)
    \/ \E addr \in Addresses : Lost(addr)
    \/ current_rssi

SpecTrack == Init /\ [][NextTrack]_vars

(* C24: removing a peer from the neighbor set cancels its observation task
   and discards its window: every address that has a task or a window is in
   the neighbor set, and current_rssi reports neighbors only. *)
C24_TrackedAreNeighbors ==
    /\ DOMAIN device_tasks \subseteq neighbor_addresses
    /\ DOMAIN rssi_data \subseteq neighbor_addresses
    /\ \A d \in response.devices : d.address \in neighbor_addresses


\* The server runs its startup; what the chain and the adapter send it is
\* not its to decide.
SpecTrackLive == Init /\ [][NextTrack]_vars /\ WF_vars(Startup)

(* C27: for every peer that is in the neighbor set and whose radio has been
   discovered and not lost, the engine eventually has an observation task,
   also when the peer entered the set after its discovery was ignored
   (unless the peer leaves the set or its radio is lost first). *)
C27_NeighborEventuallyObserved ==
    \A addr \in Addresses :
        (addr \in neighbor_addresses /\ addr \in discovered)
            ~> \/ contains_key(device_tasks, addr)
               \/ addr \notin neighbor_addresses
               \/ addr \notin discovered



(* current_rssi step by step (src/server/src/bluetooth.rs): it locks the    *)
(* map and clones it, releases the lock, and computes the medians from the  *)
(* clone while the tasks and the discovery loop go on.                      *)

\* rssi_data.lock().await.clone()
current_rssi_lock ==
    /\ rssi_data_snapshot = <<>>
    /\ rssi_data_snapshot' = <<rssi_data>>
    /\ response' = NoResponse
    /\ adapter_event' = NoEvent
    /\ UNCHANGED <<chain, scoring, neighbors, worker, locking, rssi_data, device_tasks, pushed,
                   scan_devices_result, in_flight, discovered>>

\* Faulty variant: the medians of the map as it stands when the reply is
\* built.
current_rssi_reply_live ==
    /\ rssi_data_snapshot # <<>>
    /\ response' = RssiResponse(rssi_data)
    /\ rssi_data_snapshot' = <<>>
    /\ adapter_event' = NoEvent
    /\ UNCHANGED <<chain, scoring, neighbors, worker, locking, rssi_data, device_tasks, pushed,
                   scan_devices_result, in_flight, discovered>>

\* The loop over the clone and Ok(RssiResponse { devices }).
current_rssi_reply ==
    /\ rssi_data_snapshot # <<>>
    /\ response' = RssiResponse(rssi_data_snapshot[1])
    /\ rssi_data_snapshot' = <<>>
    /\ adapter_event' = NoEvent
    /\ UNCHANGED <<chain, scoring, neighbors, worker, locking, rssi_data, device_tasks, pushed,
                   scan_devices_result, in_flight, discovered>>

\* While queries run step by step all windows together have been pushed to
\* at most MaxQueryPushes times.
MaxQueryPushes == 3

QueryPushRoom == SumLen(pushed, DOMAIN pushed) < MaxQueryPushes

NextQuery ==
    \/ \E addr \in ScanNeighbors, reading \in {r \in Readings : r.ok} :
           QueryPushRoom /\ DeviceAdded(addr, TRUE, reading, TRUE)
    \/ \E addr \in ScanNeighbors, rssi \in RssiValues :
           QueryPushRoom /\ RssiChanged(addr, rssi)
    \/ \E addr \in ScanNeighbors : DeviceRemoved(addr)
    \/ current_rssi_lock
    \/ current_rssi_reply

SpecQuery == InitScan /\ [][NextQuery]_vars

(* C28: current_rssi returns a consistent snapshot: under any interleaving
   with pushes and removals the reply holds each address at most once and
   its (address, median) pairs are exactly those of the map as it stood at
   the moment the lock was held. *)
C28_ConsistentSnapshot ==
    [][response'.kind # "none" =>
         /\ rssi_data_snapshot # <<>>
         /\ response'.kind = "Ok"
         /\ {d.address : d \in response'.devices}
                = {a \in DOMAIN rssi_data_snapshot[1] :
                       rssi_data_snapshot[1][a] # <<>>}
         /\ \A d \in response'.devices :
                /\ IsMedianOf(d.rssi, rssi_data_snapshot[1][d.address])
                /\ \A e \in response'.devices :
                       e.address = d.address => e = d]_vars

\* A reply built after a peer was removed and another peer's window got a
\* sample that moved its median, both since the lock was held: it differs
\* from the medians of the map as it stands.
C28_Witness ==
    /\ response.kind = "Ok"
    /\ \E d \in response.devices : ~contains_key(rssi_data, d.address)
    /\ \E d \in response.devices :
           /\ contains_key(rssi_data, d.address)
           /\ ~IsMedianOf(d.rssi, rssi_data[d.address])



(* The offchain worker of the pallet                                        *)
(* (src/pallets/proof-of-location/src/offchain_worker.rs).  It runs once    *)
(* for an imported block, reads the registry as of that block, asks the     *)
(* sensing server over HTTP and hands signed transactions of the local      *)
(* account to the pool; a block author dispatches them later, oldest first. *)

\* The worker runs at most MaxCycles times and at most MaxPool transactions
\* wait for a block.
MaxCycles == 2
MaxPool == 3

\* The account of the first key of the keystore.
LocalAccount == "alice"

\* What an HTTP request can come to.
Exchanges ==
    {"Ok", "SendFailed", "DeadlineReached", "WaitFailed", "Status500", "Undecodable"}

\* What GET /location answers: the server's radio address and its position,
\* here as the micro-degrees submit_location_data makes of it.
LocationAnswers ==
    {[address |-> "11:22:33:44:55:66", latitude |-> 0, longitude |-> 0]}

\* What GET /rssi answers.
DeviceLists ==
    {<<>>,
     <<DeviceRssi("AA:BB:CC:DD:EE:FF", -65)>>,
     <<DeviceRssi("AA:BB:CC:DD:EE:FF", -65), DeviceRssi("01:02:03:04:05:06", -70)>>}

\* fetch_rssi_from_server and fetch_location_from_server: "Ok" or the
\* http::Error returned.
fetch_from_server(exchange) ==
    CASE exchange = "SendFailed"      -> "IoError"
      [] exchange = "DeadlineReached" -> "DeadlineReached"
      [] exchange = "WaitFailed"      -> "IoError"
      [] exchange = "Status500"       -> "Unknown"
      [] exchange = "Undecodable"     -> "Unknown"
      [] OTHER                        -> "Ok"

RegisterNodeTx(location) ==
    [name |-> "register_node", who |-> LocalAccount, address |-> location.address,
     latitude |-> location.latitude, longitude |-> location.longitude]

PublishRssiDataTx(neighbor, rssi) ==
    [name |-> "publish_rssi_data", who |-> LocalAccount, neighbor |-> neighbor,
     rssi |-> rssi]

\* Faulty variant: the loop ends at the first device whose address is not
\* registered or whose transaction the pool refuses.
RECURSIVE PublishAll_breaks(_, _, _)
PublishAll_breaks(devices, refused, i) ==
    IF i > Len(devices) THEN <<>>
    ELSE IF ~contains_key(AddressRegistrationData, devices[i].address) THEN <<>>
    ELSE <<[call |-> PublishRssiDataTx(AddressRegistrationData[devices[i].address],
                                       devices[i].rssi),
            sent |-> i \notin refused]>>
             \o (IF i \in refused THEN <<>>
                 ELSE PublishAll_breaks(devices, refused, i + 1))

\* The loop over rssi_response.devices from position i on: a call for every
\* device whose address is registered, in the order of the list, and whether
\* the pool took its transaction (refused holds the positions it did not).
RECURSIVE PublishAll(_, _, _)
PublishAll(devices, refused, i) ==
    IF i > Len(devices) THEN <<>>
    ELSE IF ~contains_key(AddressRegistrationData, devices[i].address)
    THEN PublishAll(devices, refused, i + 1)
    ELSE <<[call |-> PublishRssiDataTx(AddressRegistrationData[devices[i].address],
                                       devices[i].rssi),
            sent |-> i \notin refused]>>
             \o PublishAll(devices, refused, i + 1)

Calls(published) == [i \in 1..Len(published) |-> published[i].call]

InPool(submission) == submission.sent

\* The names of the calls of txs, in order.
Steps(txs) == [i \in 1..Len(txs) |-> txs[i].name]

Run(res, trace, transactions, published) ==
    [result |-> res, trace |-> trace, transactions |-> transactions,
     published |-> published]

\* Faulty variant: a failed fetch is logged and the run goes on with an
\* empty answer.
fetch_rssi_and_submit_goes_on(s) ==
    IF ~s.can_sign THEN Run("Err", <<>>, <<>>, <<>>)
    ELSE LET registration ==
                 IF contains_key(AccountData, LocalAccount)
                 THEN Run("Ok", <<>>, <<>>, <<>>)
                 ELSE IF ~s.sent
                 THEN Run("Err", <<"fetch_location", "register_node">>, <<>>, <<>>)
                 ELSE Run("Ok", <<"fetch_location", "register_node">>,
                          <<RegisterNodeTx(s.location)>>, <<>>)
         IN  IF registration.result = "Err" THEN registration
             ELSE LET published == PublishAll(s.devices, s.refused, 1)
                  IN  Run("Ok",
                          registration.trace \o <<"fetch_rssi">>
                              \o Steps(Calls(published)),
                          registration.transactions
                              \o Calls(SelectSeq(published, InPool)),
                          Calls(published))

\* fetch_rssi_and_submit: what one run does, in order, and the transactions
\* it hands to the pool.
fetch_rssi_and_submit(s) ==
    IF ~s.can_sign THEN Run("Err", <<>>, <<>>, <<>>)
    ELSE LET registration ==
                 IF contains_key(AccountData, LocalAccount)
                 THEN Run("Ok", <<>>, <<>>, <<>>)
                 ELSE IF fetch_from_server(s.location_exchange) # "Ok"
                 THEN Run("Err", <<"fetch_location">>, <<>>, <<>>)
                 ELSE IF ~s.sent
                 THEN Run("Err", <<"fetch_location", "register_node">>, <<>>, <<>>)
                 ELSE Run("Ok", <<"fetch_location", "register_node">>,
                          <<RegisterNodeTx(s.location)>>, <<>>)
         IN  IF registration.result = "Err" THEN registration
             ELSE IF fetch_from_server(s.rssi_exchange) # "Ok"
             THEN Run("Err", registration.trace \o <<"fetch_rssi">>,
                      registration.transactions, <<>>)
             ELSE LET published == PublishAll(s.devices, s.refused, 1)
                  IN  Run("Ok",
                          registration.trace \o <<"fetch_rssi">>
                              \o Steps(Calls(published)),
                          registration.transactions
                              \o Calls(SelectSeq(published, InPool)),
                          Calls(published))

\* fn offchain_worker(block_number): one run; an error is logged.
offchain_worker(s) ==
    /\ cycles < MaxCycles
    /\ LET run == fetch_rssi_and_submit(s)
       IN  /\ Len(pool) + Len(run.transactions) <= MaxPool
           /\ pool' = pool \o run.transactions
           /\ cycle' = [result |-> run.result, trace |-> run.trace,
                        registered |-> contains_key(AccountData, LocalAccount),
                        after |-> [result |-> cycle.result, trace |-> cycle.trace],
                        met |-> [can_sign |-> s.can_sign,
                                 location_exchange |-> s.location_exchange,
                                 sent |-> s.sent,
                                 rssi_exchange |-> s.rssi_exchange,
                                 devices |-> s.devices,
                                 refused |-> s.refused],
                        published |-> run.published]
           /\ registrations' =
                  registrations
                      + Cardinality({i \in 1..Len(run.transactions) :
                                        run.transactions[i].name = "register_node"})
    /\ cycles' = cycles + 1
    /\ UNCHANGED <<chain, scoring, scanning, neighbors, locking, wire>>

\* A block author dispatches the oldest transaction of the local account.
Dispatch ==
    /\ pool # <<>>
    /\ LET tx == Head(pool)
       IN  IF tx.name = "register_node"
           THEN register_node(tx.who, tx.address, tx.latitude, tx.longitude)
           ELSE /\ RoomFor(tx.who, tx.neighbor)
                /\ publish_rssi_data(tx.who, tx.neighbor, tx.rssi)
    /\ pool' = Tail(pool)
    /\ UNCHANGED <<scoring, scanning, neighbors, locking, cycle, cycles, registrations, wire>>

\* What a run can meet: whether the keystore holds a key, what the two
\* requests come to, whether the pool takes the registration and the
\* report of the first device.  What comes
\* after the step that ends the run is left at its first value.
Surroundings ==
    {s \in [can_sign : BOOLEAN, location_exchange : Exchanges,
            location : LocationAnswers, sent : BOOLEAN,
            rssi_exchange : Exchanges, devices : DeviceLists,
            refused : {{}, {1}}] :
        /\ (~s.can_sign \/ s.location_exchange # "Ok") => s.sent
        /\ (~s.can_sign \/ s.location_exchange # "Ok" \/ ~s.sent)
               => s.rssi_exchange = "Ok"
        /\ (~s.can_sign \/ s.location_exchange # "Ok" \/ ~s.sent
               \/ s.rssi_exchange # "Ok") => s.devices = <<>>
        /\ ~s.can_sign => s.location_exchange = "Ok"
        /\ s.refused \subseteq 1..Len(s.devices)}

\* What bob registers with: the radio address the local node is to claim,
\* or its own, within reach of the local node or beyond.
OtherClaims ==
    {<<"11:22:33:44:55:66", 0, 0>>,
     <<"AA:BB:CC:DD:EE:FF", 0, 0>>, <<"AA:BB:CC:DD:EE:FF", 0, 90>>}

NextWorker ==
    \/ \E s \in Surroundings : offchain_worker(s)
    \/ Dispatch
    \/ \E claim \in OtherClaims :
           register_node("bob", claim[1], claim[2], claim[3]) /\ UNCHANGED offchain
    \/ unregister_node("bob") /\ UNCHANGED offchain
    \/ register_node("carol", "01:02:03:04:05:06", 0, 0) /\ UNCHANGED offchain

SpecWorker == Init /\ [][NextWorker]_vars



(* Properties of the offchain worker.                                      *)

Count(trace, step) == Cardinality({i \in 1..Len(trace) : trace[i] = step})

Last(trace) == trace[Len(trace)]

\* The step is a run of the offchain worker.
WorkerRuns == cycles' = cycles + 1

\* In its run the worker fetched the location or submitted a registration.
Registers(trace) == Count(trace, "fetch_location") + Count(trace, "register_node") > 0

\* What the run does for the registration, without the clause that it is
\* done once.
RegistrationInOrder ==
    [][WorkerRuns =>
         LET trace == cycle'.trace
         IN  /\ Registers(trace) => ~contains_key(AccountData, LocalAccount)
             /\ Count(trace, "fetch_location") <= 1
             /\ Count(trace, "register_node") <= 1
             /\ \A i, j \in 1..Len(trace) :
                    (trace[i] = "register_node" /\ trace[j] = "fetch_rssi") => i < j
             /\ (Registers(trace) /\ registrations' = registrations)
                    => /\ Count(trace, "fetch_rssi") = 0
                       /\ Count(trace, "publish_rssi_data") = 0
                       /\ pool' = pool]_vars

(* C29: across the reporting cycles the worker fetches a location and
   submits register_node only in a cycle that starts with the local account
   absent, submits it once, and never after the account is registered; in a
   cycle the registration is submitted before the RSSI fetch, and a failed
   location fetch or submission ends the cycle without fetching or
   reporting RSSI. *)
C29_RegistersOnce ==
    /\ RegistrationInOrder
    /\ [][WorkerRuns => registrations' <= 1]_vars

\* The failures of a fetch that the adapter is to survive: a timeout, a
\* status other than 200, a body that does not decode.
FetchFailures == {"DeadlineReached", "Status500", "Undecodable"}

\* The cycle of the step meets a failing location fetch.
LocationFetchFails ==
    /\ WorkerRuns
    /\ cycle'.met.can_sign
    /\ ~contains_key(AccountData, LocalAccount)
    /\ cycle'.met.location_exchange \in FetchFailures

\* The cycle of the step gets as far as the RSSI fetch, which fails.
RssiFetchFails ==
    /\ WorkerRuns
    /\ cycle'.met.can_sign
    /\ \/ contains_key(AccountData, LocalAccount)
       \/ cycle'.met.location_exchange = "Ok" /\ cycle'.met.sent
    /\ cycle'.met.rssi_exchange \in FetchFailures

\* The cycle before the step failed in a fetch.
AfterFailedFetch ==
    /\ WorkerRuns
    /\ cycle.result = "Err"
    /\ cycle.trace # <<>>
    /\ Last(cycle.trace) \in {"fetch_location", "fetch_rssi"}

(* C30: a fetch that times out, returns a status other than 200 or a body
   that does not decode fails the current cycle only: nothing is submitted
   from the failing step onward, the registry is left as it was, and the
   next cycle runs the same sequence again from its start. *)
C30_FetchFailureEndsCycleOnly ==
    [][/\ LocationFetchFails =>
              /\ cycle'.result = "Err"
              /\ cycle'.trace = <<"fetch_location">>
              /\ pool' = pool
              /\ UNCHANGED chain
       /\ RssiFetchFails =>
              /\ cycle'.result = "Err"
              /\ Last(cycle'.trace) = "fetch_rssi"
              /\ Count(cycle'.trace, "publish_rssi_data") = 0
              /\ pool' = pool
                     \o [i \in 1..Count(cycle'.trace, "register_node") |->
                            pool'[Len(pool) + i]]
              /\ \A i \in Len(pool) + 1..Len(pool') : pool'[i].name = "register_node"
              /\ UNCHANGED chain
       /\ (AfterFailedFetch /\ cycle'.met.can_sign) =>
              /\ cycle'.trace # <<>>
              /\ cycle'.trace[1] = IF contains_key(AccountData, LocalAccount)
                                   THEN "fetch_rssi" ELSE "fetch_location"]_vars

\* A cycle whose location fetch failed is followed by one that fetches the
\* location again, submits the registration and then fails in the RSSI
\* fetch: the registration stays in the pool and nothing else joins it.
C30_Witness ==
    /\ cycle.after.result = "Err"
    /\ cycle.after.trace = <<"fetch_location">>
    /\ cycle.result = "Err"
    /\ cycle.trace = <<"fetch_location", "register_node", "fetch_rssi">>
    /\ cycle.met.rssi_exchange \in FetchFailures
    /\ Len(pool) = 1


(* C31: a registration that the registry rejects for a constraint violation
   (the address is taken by another account, or the account is registered)
   is not submitted again on its own: the reporting cycle that runs after
   the rejection submits no register_node. *)
C31_RejectedNotResubmitted ==
    [][(/\ WorkerRuns
        /\ call.name = "register_node"
        /\ call.who = LocalAccount
        /\ result \in {"BluetoothAddressAlreadyTaken", "AccountAlreadyRegistered"})
           => Count(cycle'.trace, "register_node") = 0]_vars


\* The address of the device is registered.
Known(device) == contains_key(AddressRegistrationData, device.address)

(* C36: in a reporting cycle the adapter submits, for the device list the
   RSSI fetch returned, exactly one publish_rssi_data call for every listed
   device whose address is in AddressRegistrationData, naming the account
   the address maps to and the device's rssi, in the order of the list, and
   nothing for a device whose address is absent; an absent address or a
   submission the pool refuses does not keep the remaining calls from being
   submitted. *)
C36_OneReportPerKnownDevice ==
    [][(WorkerRuns /\ cycle'.result = "Ok") =>
         LET known == SelectSeq(cycle'.met.devices, Known)
             reports == cycle'.published
             fresh == SubSeq(pool', Len(pool) + 1, Len(pool'))
             reported == SelectSeq(fresh, LAMBDA tx : tx.name = "publish_rssi_data")
         IN  /\ Len(reports) = Len(known)
             /\ \A i \in 1..Len(known) :
                    /\ reports[i].name = "publish_rssi_data"
                    /\ reports[i].who = LocalAccount
                    /\ reports[i].neighbor = AddressRegistrationData[known[i].address]
                    /\ reports[i].rssi = known[i].rssi
             /\ Count(cycle'.trace, "publish_rssi_data") = Len(known)
             /\ Len(reported) >= Len(known) - Cardinality(cycle'.met.refused)
             /\ \A i \in 1..Len(reported) :
                    \E j \in 1..Len(reports) : reported[i] = reports[j]]_vars

\* A cycle whose list names two registered devices and whose first report
\* the pool refused: both calls were made and the second waits in the pool.
C36_Witness ==
    /\ cycle.result = "Ok"
    /\ Len(cycle.met.devices) = 2
    /\ cycle.met.refused = {1}
    /\ Len(cycle.published) = 2
    /\ pool # <<>>
    /\ pool[Len(pool)] = cycle.published[2]
    /\ cycle.published[1] # cycle.published[2]



(* The RSSI answer on the wire: the sensing server encodes its RssiResponse *)
(* with the SCALE codec (src/server/src/main.rs) and the offchain worker    *)
(* decodes the body as its own RssiResponse                                 *)
(* (src/pallets/proof-of-location/src/util.rs).  A byte is 0..255, an       *)
(* address six bytes.                                                       *)

\* An answer lists at most MaxDevices devices.
MaxDevices == 2

\* The server's DeviceRssi { address, name, rssi }; the names are none and
\* "Un".
ServerDevices ==
    [address : {<<170, 187, 204, 221, 238, 255>>, <<1, 2, 3, 4, 5, 6>>},
     name : {<<>>, <<85, 110>>},
     rssi : {-65, 0, I16Min}]

\* Compact<u32> of a length below 2^14: one byte up to 63, two after.
compact_encode(n) ==
    IF n < 64 THEN <<4 * n>>
    ELSE <<(4 * n + 1) % 256, (4 * n + 1) \div 256>>

\* i16, little-endian two's complement.
i16_encode(x) ==
    LET u == IF x < 0 THEN x + 65536 ELSE x
    IN  <<u % 256, u \div 256>>

\* The derived Encode of the server's DeviceRssi: its fields in order.
ServerDeviceRssi_encode(device) ==
    device.address \o compact_encode(Len(device.name)) \o device.name
        \o i16_encode(device.rssi)

RECURSIVE EncodeEach(_)
EncodeEach(devices) ==
    IF devices = <<>> THEN <<>>
    ELSE ServerDeviceRssi_encode(Head(devices)) \o EncodeEach(Tail(devices))

\* response.encode(): the Vec's length, then its elements.
ServerRssiResponse_encode(devices) ==
    compact_encode(Len(devices)) \o EncodeEach(devices)

\* Compact<u32>::decode of the one- and two-byte forms.
compact_decode(bytes) ==
    IF bytes = <<>> THEN [ok |-> FALSE, value |-> 0, rest |-> <<>>]
    ELSE IF bytes[1] % 4 = 0
    THEN [ok |-> TRUE, value |-> bytes[1] \div 4, rest |-> Tail(bytes)]
    ELSE IF bytes[1] % 4 = 1 /\ Len(bytes) >= 2
    THEN [ok |-> TRUE, value |-> (bytes[1] + 256 * bytes[2]) \div 4,
          rest |-> Tail(Tail(bytes))]
    ELSE [ok |-> FALSE, value |-> 0, rest |-> <<>>]

i16_decode(low, high) ==
    LET u == low + 256 * high
    IN  IF u >= 32768 THEN u - 65536 ELSE u

\* The derived Decode of the worker's DeviceRssi { address, rssi }, n times.
RECURSIVE DecodeEach(_, _)
DecodeEach(bytes, n) ==
    IF n = 0 THEN [ok |-> TRUE, devices |-> <<>>]
    ELSE IF Len(bytes) < 8 THEN [ok |-> FALSE, devices |-> <<>>]
    ELSE LET device == DeviceRssi(SubSeq(bytes, 1, 6), i16_decode(bytes[7], bytes[8]))
             others == DecodeEach(SubSeq(bytes, 9, Len(bytes)), n - 1)
         IN  IF others.ok
             THEN [ok |-> TRUE, devices |-> <<device>> \o others.devices]
             ELSE others

\* RssiResponse::decode(&mut &body[..]): bytes left over are not an error.
RssiResponse_decode(body) ==
    LET length == compact_decode(body)
    IN  IF ~length.ok THEN [kind |-> "Err", devices |-> <<>>]
        ELSE LET each == DecodeEach(length.rest, length.value)
             IN  IF each.ok THEN [kind |-> "Ok", devices |-> each.devices]
                 ELSE [kind |-> "Err", devices |-> <<>>]

\* GET /rssi at the server: the scan found devices; the body is its encoding.
scan_rssi ==
    /\ wire.step = "scanned"
    /\ wire' = [wire EXCEPT !.step = "sent",
                            !.body = ServerRssiResponse_encode(wire.devices)]
    /\ UNCHANGED <<chain, scoring, scanning, neighbors, locking, pool, cycle, cycles,
                   registrations>>

\* The worker reads the body and decodes it.
fetch_rssi_from_server ==
    /\ wire.step = "sent"
    /\ wire' = [wire EXCEPT !.step = "decoded",
                            !.decoded = RssiResponse_decode(wire.body)]
    /\ UNCHANGED <<chain, scoring, scanning, neighbors, locking, pool, cycle, cycles,
                   registrations>>

InitWire ==
    /\ AccountData = <<>>
    /\ AddressRegistrationData = <<>>
    /\ ServerConfig = <<>>
    /\ RssiData = <<>>
    /\ block_number = 1
    /\ call = [name |-> "genesis"]
    /\ result = "Ok"
    /\ events = <<>>
    /\ InitScoring
    /\ InitScanning
    /\ InitNeighbors
    /\ pool = <<>>
    /\ cycle = NoCycle
    /\ cycles = 0
    /\ registrations = 0
    /\ InitLocking
    /\ \E n \in 0..MaxDevices : \E devices \in [1..n -> ServerDevices] :
           wire = [NoWire EXCEPT !.step = "scanned", !.devices = devices]

NextWire == scan_rssi \/ fetch_rssi_from_server

SpecWire == InitWire /\ [][NextWire]_vars

\* The (address, rssi) pairs of the devices, in order.
Pairs(devices) ==
    [i \in 1..Len(devices) |-> DeviceRssi(devices[i].address, devices[i].rssi)]

(* C32: the RSSI wire format round-trips: the bytes the server sends for
   GET /rssi are a length prefix followed by exactly 8 bytes for each device,
   and decoding them with the worker's RssiResponse yields the same
   (address, rssi) pairs in the same order. *)
C32_WireRoundTrip ==
    /\ wire.step \in {"sent", "decoded"} =>
           Len(wire.body) = Len(compact_encode(Len(wire.devices)))
                                + 8 * Len(wire.devices)
    /\ wire.step = "decoded" =>
           /\ wire.decoded.kind = "Ok"
           /\ wire.decoded.devices = Pairs(wire.devices)




(* The path loss model: util.rs estimate_rssi and the trust-score crate's  *)
(* estimate_rssi (src/trust-score/src/score.rs), on coordinates in         *)
(* micro-degrees.  Distances are whole millimetres and logarithms          *)
(* thousandths, so an estimate off zero distance is the code's to within   *)
(* one unit.                                                               *)

\* The whole square root.
RECURSIVE SqrtBetween(_, _, _)
SqrtBetween(x, low, high) ==
    IF low >= high THEN low
    ELSE LET mid == (low + high + 1) \div 2
         IN  IF mid * mid <= x THEN SqrtBetween(x, mid, high)
             ELSE SqrtBetween(x, low, mid - 1)

\* a.kilometers_to(&b) * 1000.0, in millimetres.
DistanceMm(a_lat, a_lon, b_lat, b_lon) ==
    SqrtBetween(DistanceSquaredMm([latitude |-> a_lat, longitude |-> a_lon],
                                  [latitude |-> b_lat, longitude |-> b_lon]),
                0, 46340)

\* The fraction of log10 of a mantissa in 1000..9999 (thousandths of
\* 1.000..9.999), bit by bit: square, and take a bit when 10 is passed.
RECURSIVE Log10Fraction(_, _)
Log10Fraction(mantissa, weight) ==
    IF weight = 0 THEN 0
    ELSE LET squared == (mantissa * mantissa) \div 1000
         IN  IF squared >= 10000
             THEN weight + Log10Fraction(squared \div 10, weight \div 2)
             ELSE Log10Fraction(squared, weight \div 2)

\* libm::log10 / f64::log10 of a positive number of millimetres taken as
\* metres, in thousandths.
RECURSIVE Log10Thousandths(_, _)
Log10Thousandths(mm, scale) ==
    IF mm >= 10 * scale THEN 1000 + Log10Thousandths(mm, 10 * scale)
    ELSE Log10Fraction((mm * 1000) \div scale, 500) - 3000

\* f64 as i16 of a finite number of thousandths: towards zero, saturating.
AsI16(thousandths) ==
    LET whole == IF thousandths < 0 THEN -((-thousandths) \div 1000)
                 ELSE thousandths \div 1000
    IN  IF whole > I16Max THEN I16Max
        ELSE IF whole < I16Min THEN I16Min ELSE whole

\* What an estimator did: the i16 returned and the distances (mm) of which
\* it took the logarithm.
Estimate(rssi, log10_of) == [rssi |-> rssi, log10_of |-> log10_of]

\* Faulty variant: the model is applied at every distance.  log10(0.0) is
\* -inf, the estimate +inf (NaN for the exponent 0) and the cast 32767 (0).
util_estimate_rssi_unguarded(a_lat, a_lon, b_lat, b_lon, reference_rssi, path_loss_exponent) ==
    LET dist == DistanceMm(a_lat, a_lon, b_lat, b_lon)
    IN  IF dist = 0
        THEN Estimate(IF path_loss_exponent = 0 THEN 0 ELSE I16Max, <<dist>>)
        ELSE Estimate(AsI16(reference_rssi * 1000
                                - path_loss_exponent * Log10Thousandths(dist, 1)),
                      <<dist>>)

\* util.rs estimate_rssi: ref_rssi - path_loss_exp * 10.0 * log10(dist) with
\* path_loss_exp = path_loss_exponent / 10.0 if dist > 0.0, else 0.0.
util_estimate_rssi(a_lat, a_lon, b_lat, b_lon, reference_rssi, path_loss_exponent) ==
    LET dist == DistanceMm(a_lat, a_lon, b_lat, b_lon)
    IN  IF dist > 0
        THEN Estimate(AsI16(reference_rssi * 1000
                                - path_loss_exponent * Log10Thousandths(dist, 1)),
                      <<dist>>)
        ELSE Estimate(0, <<>>)

\* score.rs estimate_rssi: -60.0 - PATH_LOSS_EXPONENT * 10.0 * dist.log10()
\* if dist != 0.0, else 0.0.
PATH_LOSS_EXPONENT == 3

score_estimate_rssi(a_lat, a_lon, b_lat, b_lon) ==
    LET dist == DistanceMm(a_lat, a_lon, b_lat, b_lon)
    IN  IF dist # 0
        THEN Estimate(AsI16(-60 * 1000
                                - PATH_LOSS_EXPONENT * 10 * Log10Thousandths(dist, 1)),
                      <<dist>>)
        ELSE Estimate(0, <<>>)

\* The places of the two nodes (the same place, and 1 m to about 14 m
\* apart), T::ReferenceRssi (i16) and T::PathLossExponent (u8, tenths).
EstimateInputs ==
    [a : Coordinates \cup {<<9, 0>>}, b : Coordinates \cup {<<9, 0>>},
     reference_rssi : {-60, 0, I16Min}, path_loss_exponent : {0, 30, 255}]

InitEstimate ==
    /\ AccountData = <<>>
    /\ AddressRegistrationData = <<>>
    /\ ServerConfig = <<>>
    /\ RssiData = <<>>
    /\ block_number = 1
    /\ call = [name |-> "genesis"]
    /\ result = "Ok"
    /\ events = <<>>
    /\ overflow_checks = TRUE
    /\ values = <<>>
    /\ \E input \in EstimateInputs : query = [name |-> "none", input |-> input]
    /\ score = NoScore
    /\ InitScanning
    /\ InitNeighbors
    /\ InitWorker
    /\ InitLocking

\* One call of util.rs estimate_rssi.
CallEstimateRssi ==
    /\ query.name = "none"
    /\ query' = [query EXCEPT !.name = "util::estimate_rssi"]
    /\ score' = [kind |-> "estimate",
                 value |-> util_estimate_rssi(
                     query.input.a[1], query.input.a[2],
                     query.input.b[1], query.input.b[2],
                     query.input.reference_rssi, query.input.path_loss_exponent)]
    /\ UNCHANGED <<chain, overflow_checks, values, scanning, neighbors, worker, locking>>

\* One call of score.rs estimate_rssi.
CallScoreEstimateRssi ==
    /\ query.name = "none"
    /\ query' = [query EXCEPT !.name = "score::estimate_rssi"]
    /\ score' = [kind |-> "estimate",
                 value |-> score_estimate_rssi(
                     query.input.a[1], query.input.a[2],
                     query.input.b[1], query.input.b[2])]
    /\ UNCHANGED <<chain, overflow_checks, values, scanning, neighbors, worker, locking>>

NextEstimate == CallEstimateRssi \/ CallScoreEstimateRssi

SpecEstimate == InitEstimate /\ [][NextEstimate]_vars

\* An estimator has answered.
Estimated == query.name \in {"util::estimate_rssi", "score::estimate_rssi"}

\* The exact distance between the two places of the call.
EstimateDistanceSquared ==
    DistanceSquaredMm([latitude |-> query.input.a[1], longitude |-> query.input.a[2]],
                      [latitude |-> query.input.b[1], longitude |-> query.input.b[2]])

(* C37: the path-loss estimator returns 0 whenever the two coordinate pairs
   are at distance exactly 0 (in particular for identical coordinates), for
   every reference RSSI and path-loss exponent, and it never evaluates the
   logarithm of 0. *)
C37_ZeroAtZeroDistance ==
    Estimated =>
        /\ EstimateDistanceSquared = 0 => score.value.rssi = 0
        /\ query.input.a = query.input.b => score.value.rssi = 0
        /\ \A i \in 1..Len(score.value.log10_of) : score.value.log10_of[i] # 0

\* The estimator of util.rs has answered for one place taken twice, with a
\* reference RSSI and an exponent that would not give 0 by themselves.
C37_Witness ==
    /\ query.name = "util::estimate_rssi"
    /\ query.input.a = query.input.b
    /\ query.input.reference_rssi = -60
    /\ query.input.path_loss_exponent = 30
    /\ score.value = Estimate(0, <<>>)



(* The trust-score service: blockchain_task of src/trust-score/src/score.rs *)
(* computes every account's error from the chain's storage at each         *)
(* finalized block.                                                        *)

\* fetch_all_rssi(api, block, account): the reporters with an RssiData
\* entry about account in the block.
fetch_all_rssi(block, account) ==
    {reporter \in Accounts : contains_key(RssiData, <<block, account, reporter>>)}

\* The error samples of account, one for each reporter, in one order of
\* iteration: *rssi - estimate_rssi(account's place, reporter's place).
RECURSIVE TaskErrorsOf(_, _, _)
TaskErrorsOf(block, account, reporters) ==
    IF reporters = {} THEN <<>>
    ELSE LET r == CHOOSE x \in reporters : TRUE
         IN  <<RssiData[<<block, account, r>>]
                   - score_estimate_rssi(AccountData[account].latitude,
                                         AccountData[account].longitude,
                                         AccountData[r].latitude,
                                         AccountData[r].longitude).rssi>>
                 \o TaskErrorsOf(block, account, reporters \ {r})

\* One round of blockchain_task's loop, for the finalized block: blocks
\* before the third are skipped; a reporter that is no longer registered
\* makes unwrap() panic, as does an overflow; otherwise new_error_data holds the error of every
\* account with a sample, and samples records who the samples came from.
blockchain_task(block) ==
    /\ block >= 3
    /\ query' = [name |-> "blockchain_task", block_number |-> block]
    /\ LET scored == {account \in DOMAIN AccountData :
                          fetch_all_rssi(block, account) # {}}
           errors == [account \in scored |->
                         trimmed_median_error(
                             TaskErrorsOf(block, account, fetch_all_rssi(block, account)),
                             overflow_checks)]
       IN  score' =
               IF \E account \in scored :
                      fetch_all_rssi(block, account) \ DOMAIN AccountData # {}
               THEN Panic
               ELSE IF \E account \in scored : errors[account] = Panic
               THEN Panic
               ELSE [kind |-> "ErrorData",
                     value |-> [account \in scored |-> errors[account].value],
                     samples |-> [account \in scored |-> fetch_all_rssi(block, account)]]
    /\ UNCHANGED <<chain, overflow_checks, values, scanning, neighbors, worker, locking>>

InitScoreTask ==
    /\ AccountData = <<>>
    /\ AddressRegistrationData = <<>>
    /\ ServerConfig = <<>>
    /\ RssiData = <<>>
    /\ block_number = 3
    /\ call = [name |-> "genesis"]
    /\ result = "Ok"
    /\ events = <<>>
    /\ overflow_checks \in BOOLEAN
    /\ values = <<>>
    /\ query = [name |-> "none"]
    /\ score = NoScore
    /\ InitScanning
    /\ InitNeighbors
    /\ InitWorker
    /\ InitLocking

NextScoreTask ==
    \/ \E who \in Accounts :
           register_node(who, RadioOf[who], 0, 0) /\ UNCHANGED offchain
    \/ \E who \in Accounts, neighbor \in Accounts, rssi \in RssiValues :
           publish_rssi_data(who, neighbor, rssi) /\ UNCHANGED offchain
    \/ \E account \in Accounts :
           calculate_trust_score(block_number, account)
    \/ blockchain_task(block_number)

SpecScoreTask == InitScoreTask /\ [][NextScoreTask]_vars

(* C38: a node's measurement of itself never contributes to its own trust
   score: in every registry state, also when an account has published an
   RSSI value naming itself as neighbor, the error samples used for a
   subject come only from reporters other than the subject, in the runtime
   query and in the trust-score service alike. *)
C38_NoSelfMeasurement ==
    /\ query.name = "calculate_trust_score" =>
           query.account \notin ReportersOf(query.block_number, query.account)
    /\ (query.name = "blockchain_task" /\ score.kind = "ErrorData") =>
           \A account \in DOMAIN score.samples : account \notin score.samples[account]



(* Reports and the scores they enter: publish_rssi_data, the registry and  *)
(* calculate_trust_score over two blocks, three nodes at one place.        *)

ReportAccounts == {"alice", "bob", "carol"}

InitReports ==
    /\ AccountData = <<>>
    /\ AddressRegistrationData = <<>>
    /\ ServerConfig = <<>>
    /\ RssiData = <<>>
    /\ block_number = 1
    /\ call = [name |-> "genesis"]
    /\ result = "Ok"
    /\ events = <<>>
    /\ overflow_checks = TRUE
    /\ values = <<>>
    /\ query = [name |-> "none"]
    /\ score = NoScore
    /\ InitScanning
    /\ InitNeighbors
    /\ InitWorker
    /\ InitLocking

NextReports ==
    \/ \E who \in ReportAccounts :
           register_node(who, ScoreRadioOf[who], 0, 0) /\ UNCHANGED offchain
    \/ unregister_node("bob") /\ UNCHANGED offchain
    \/ \E who \in ReportAccounts, neighbor \in ReportAccounts, rssi \in {-65} :
           RoomFor(who, neighbor) /\ publish_rssi_data(who, neighbor, rssi)
               /\ UNCHANGED offchain
    \/ NextBlock /\ UNCHANGED offchain
    \/ \E block \in 1..block_number, account \in ReportAccounts :
           calculate_trust_score(block, account)

SpecReports == InitReports /\ [][NextReports]_vars


\* The error samples the score of account at the block is computed from,
\* by reporter; none for an account that is not registered.
SamplesOf(block, account) ==
    IF ~contains_key(AccountData, account) THEN <<>>
    ELSE [reporter \in ReportersOf(block, account) |->
              ErrorOf(block, account, reporter)]

\* This step is a publish_rssi_data that stored its report.
Published ==
    /\ call'.name = "publish_rssi_data"
    /\ result' = "Ok"
    /\ ~UNCHANGED chain

\* This step is a trust score query.
Queried == ~UNCHANGED <<query, score>>

(* C39: a report published by R about S in block B contributes exactly one
   error sample to the trust score of S at block B, as long as R is
   registered, and nothing to the score of R, of any other account, or of S
   at any other block; the trust score query changes no storage. *)
C39_OneSamplePerReport ==
    /\ [](\A block \in 1..MaxBlock, account \in DOMAIN AccountData, reporter \in ReportAccounts :
              reporter \in DOMAIN SamplesOf(block, account)
                  <=> /\ reporter # account
                      /\ contains_key(AccountData, reporter)
                      /\ contains_key(RssiData, <<block, account, reporter>>))
    /\ [][/\ Published =>
                  \A block \in 1..MaxBlock, account \in ReportAccounts :
                      SamplesOf(block, account)' =
                          IF /\ block = block_number
                             /\ account = call'.neighbor
                             /\ call'.who # call'.neighbor
                          THEN insert(SamplesOf(block, account), call'.who,
                                   call'.rssi
                                       - estimate_rssi(AccountData[account].latitude,
                                                       AccountData[account].longitude,
                                                       AccountData[call'.who].latitude,
                                                       AccountData[call'.who].longitude))
                          ELSE SamplesOf(block, account)
          /\ Queried =>
                 /\ UNCHANGED chain
                 /\ score' = NoScore
                        <=> SamplesOf(query'.block_number, query'.account) = <<>>]_vars

\* bob's report about alice has been stored and alice's score of the block
\* is computed from it.
C39_Witness ==
    /\ call.name = "publish_rssi_data"
    /\ result = "Ok"
    /\ call.who # call.neighbor
    /\ query.name = "calculate_trust_score"
    /\ query.account = call.neighbor
    /\ query.block_number = block_number
    /\ score.kind = "Some"
    /\ DOMAIN SamplesOf(block_number, call.neighbor) = {call.who}



(* C40: for every i16 measurement publish_rssi_data can store and every
   estimate of the estimator, computing a trust score never overflows i16
   arithmetic (measured - estimated, the absolute value, the sum of the two
   central elements before halving), and the score returned for 4 or more
   samples is in 0..=32767.  The samples of SpecScore are errors of stored
   measurements against the estimate 0 of nodes at one place. *)
C40_ScoreFitsI16 ==
    query.name = "trimmed_median_error" =>
        /\ score # Panic
        /\ Len(query.values) >= 4 => score.value \in 0..I16Max



\* This step handled a peer-discovered event.
DeviceAddedStep ==
    /\ adapter_event'.kind = "DeviceAdded"
    /\ response' = NoResponse

(* C33: on a peer-discovered event an observation task is started if and only
   if the address is in the neighbor set at that moment and no task is
   recorded for it; then the signal strength read is pushed into the window
   only when it is non-zero and exactly one task is started; otherwise no
   task is started and no window is created or modified. *)
C33_TaskStartedIffUntrackedNeighbor ==
    [][DeviceAddedStep =>
           LET addr == adapter_event'.addr
           IN  /\ adapter_event'.spawned
                      <=> /\ addr \in neighbor_addresses
                          /\ ~contains_key(device_tasks, addr)
               /\ IF /\ addr \in neighbor_addresses
                     /\ ~contains_key(device_tasks, addr)
                  THEN /\ DOMAIN device_tasks' = DOMAIN device_tasks \cup {addr}
                       /\ \A other \in DOMAIN device_tasks :
                              device_tasks'[other] = device_tasks[other]
                       /\ \/ rssi_data' = rssi_data
                          \/ \E rssi \in RssiValues :
                                 rssi_data' = Push(rssi_data, addr, rssi)
                  ELSE /\ device_tasks' = device_tasks
                       /\ rssi_data' = rssi_data]_vars



\* A sample is pushed into the window of addr in this step.
WindowWritten(addr) ==
    /\ contains_key(pushed', addr)
    /\ pushed'[addr] # get(pushed, addr)

(* C34: at every moment a peer has at most one live observation task, the only
   writer of the peer's window: a task starts listening for a peer only when
   no task of the peer still holds a reading, also after the peer was lost
   and is rediscovered; and a sample is pushed into a window only by the
   recorded task of the peer, or as the first reading on starting it. *)
C34_SingleWriter ==
    [][\A addr \in Addresses :
           /\ (/\ DeviceAddedStep
               /\ adapter_event'.addr = addr
               /\ adapter_event'.spawned
               /\ device_tasks'[addr] = "listening")
                  => ~contains_key(in_flight, addr)
           /\ WindowWritten(addr) =>
                  \/ /\ DeviceAddedStep
                     /\ adapter_event'.addr = addr
                     /\ adapter_event'.spawned
                  \/ /\ contains_key(device_tasks, addr)
                     /\ device_tasks[addr] = "listening"]_vars



(* The locks of the sensing server: rssi_data and neighbor_addresses are    *)
(* tokio Mutexes shared by the discovery loop, the observation tasks (one   *)
(* stands for them all), the notification listener and the query path       *)
(* (src/server/src/bluetooth.rs, src/server/src/neighbor.rs).  A step is    *)
(* the code between two places where a task can wait; a guard is dropped at *)
(* the end of its statement or block.                                       *)

\* task goes from one place to the next, locks untouched.
Moves(task, from, to) ==
    /\ at[task] = from
    /\ at' = [at EXCEPT ![task] = to]
    /\ UNCHANGED holder

\* lock.lock().await returns its guard to task: the lock was free.
Locks(task, lock, from, to) ==
    /\ at[task] = from
    /\ holder[lock] = "none"
    /\ holder' = [holder EXCEPT ![lock] = task]
    /\ at' = [at EXCEPT ![task] = to]

\* The guard of task is dropped.
Unlocks(task, lock, from, to) ==
    /\ at[task] = from
    /\ holder[lock] = task
    /\ holder' = [holder EXCEPT ![lock] = "none"]
    /\ at' = [at EXCEPT ![task] = to]

\* Faulty variant: the guard of neighbor_addresses is bound to a name and
\* lives to the end of the arm, over device.rssi().await, the push and the
\* spawn.
ScanDevicesRuns_guard_kept ==
    /\ \/ Locks("scan_devices", "neighbor_addresses", "start", "initial_count")
       \/ Unlocks("scan_devices", "neighbor_addresses", "initial_count", "discover")
       \/ Moves("scan_devices", "discover", "select")
       \/ Moves("scan_devices", "discover", "returned")
       \/ Locks("scan_devices", "neighbor_addresses", "select", "is_neighbor")
       \/ Unlocks("scan_devices", "neighbor_addresses", "is_neighbor", "select")
       \/ Moves("scan_devices", "is_neighbor", "device_rssi")
       \/ Unlocks("scan_devices", "neighbor_addresses", "device_rssi", "returned")
       \/ Locks("scan_devices", "rssi_data", "device_rssi", "seed")
       \/ Unlocks("scan_devices", "rssi_data", "seed", "spawn")
       \/ Moves("scan_devices", "device_rssi", "spawn")
       \/ /\ at["scan_devices"] = "spawn"
          /\ holder["neighbor_addresses"] = "scan_devices"
          /\ holder' = [holder EXCEPT !["neighbor_addresses"] = "none"]
          /\ at' = [at EXCEPT !["scan_devices"] = "select",
                              !["task"] = IF @ = "unspawned" THEN "subscribing" ELSE @]
       \/ /\ at["scan_devices"] = "select"
          /\ at' = [at EXCEPT !["scan_devices"] = "removed",
                              !["task"] =
                                  CASE @ \in {"subscribing", "events", "ended"} -> "unspawned"
                                    [] @ = "event" -> "event_aborted"
                                    [] @ = "push" -> "push_aborted"
                                    [] OTHER -> @]
          /\ UNCHANGED holder
       \/ Locks("scan_devices", "rssi_data", "removed", "remove")
       \/ Unlocks("scan_devices", "rssi_data", "remove", "select")
    /\ UNCHANGED <<chain, scoring, scanning, neighbors, worker>>

\* scan_devices: the count of the neighbors at the start, the discovery
\* filter, then the loop.  DeviceAdded: is_neighbor under the lock of
\* neighbor_addresses, device.rssi() (an error returns), the first reading
\* pushed under the lock of rssi_data if it is not 0, the task spawned.
\* DeviceRemoved: the task aborted (it stops at once where it waits, else
\* when it next would), the window removed under the lock of rssi_data.
ScanDevicesRuns ==
    /\ \/ Locks("scan_devices", "neighbor_addresses", "start", "initial_count")
       \/ Unlocks("scan_devices", "neighbor_addresses", "initial_count", "discover")
       \/ Moves("scan_devices", "discover", "select")
       \/ Moves("scan_devices", "discover", "returned")
       \/ Locks("scan_devices", "neighbor_addresses", "select", "is_neighbor")
       \/ Unlocks("scan_devices", "neighbor_addresses", "is_neighbor", "select")
       \/ Unlocks("scan_devices", "neighbor_addresses", "is_neighbor", "device_rssi")
       \/ Moves("scan_devices", "device_rssi", "returned")
       \/ Locks("scan_devices", "rssi_data", "device_rssi", "seed")
       \/ Unlocks("scan_devices", "rssi_data", "seed", "spawn")
       \/ Moves("scan_devices", "device_rssi", "spawn")
       \/ /\ at["scan_devices"] = "spawn"
          /\ at' = [at EXCEPT !["scan_devices"] = "select",
                              !["task"] = IF @ = "unspawned" THEN "subscribing" ELSE @]
          /\ UNCHANGED holder
       \/ /\ at["scan_devices"] = "select"
          /\ at' = [at EXCEPT !["scan_devices"] = "removed",
                              !["task"] =
                                  CASE @ \in {"subscribing", "events", "ended"} -> "unspawned"
                                    [] @ = "event" -> "event_aborted"
                                    [] @ = "push" -> "push_aborted"
                                    [] OTHER -> @]
          /\ UNCHANGED holder
       \/ Locks("scan_devices", "rssi_data", "removed", "remove")
       \/ Unlocks("scan_devices", "rssi_data", "remove", "select")
    /\ UNCHANGED <<chain, scoring, scanning, neighbors, worker>>

\* The spawned task: device.events(), then for each PropertyChanged(Rssi)
\* of events.next() a push under the lock of rssi_data.  An aborted task
\* that has taken an event is dropped where it waits for the lock, or
\* pushes and is dropped after.
ObservationTaskRuns ==
    /\ \/ Moves("task", "subscribing", "events")
       \/ Moves("task", "subscribing", "ended")
       \/ Moves("task", "events", "event")
       \/ Moves("task", "events", "ended")
       \/ Locks("task", "rssi_data", "event", "push")
       \/ Unlocks("task", "rssi_data", "push", "events")
       \/ Moves("task", "event_aborted", "unspawned")
       \/ Locks("task", "rssi_data", "event_aborted", "push_aborted")
       \/ Unlocks("task", "rssi_data", "push_aborted", "unspawned")
    /\ UNCHANGED <<chain, scoring, scanning, neighbors, worker>>

\* The listener: subscribe_finalized, blocks_sub.next(), block.events(),
\* then for each node event of the block the set changed under the lock of
\* neighbor_addresses (NodeUpdated takes it twice, one after the other);
\* a subscription that fails or ends is taken again after 5 s.
ListenerRuns ==
    /\ \/ Moves("listener", "subscribe", "blocks_next")
       \/ Moves("listener", "subscribe", "sleep")
       \/ Moves("listener", "sleep", "subscribe")
       \/ Moves("listener", "blocks_next", "block_events")
       \/ Moves("listener", "blocks_next", "sleep")
       \/ Moves("listener", "block_events", "event")
       \/ Moves("listener", "block_events", "blocks_next")
       \/ Locks("listener", "neighbor_addresses", "event", "update")
       \/ Unlocks("listener", "neighbor_addresses", "update", "event")
       \/ Moves("listener", "event", "blocks_next")
    /\ UNCHANGED <<chain, scoring, scanning, neighbors, worker>>

\* current_rssi for a request: the map cloned under the lock of rssi_data,
\* the response built from the clone.
CurrentRssiRuns ==
    /\ \/ Moves("current_rssi", "idle", "request")
       \/ Locks("current_rssi", "rssi_data", "request", "clone")
       \/ Unlocks("current_rssi", "rssi_data", "clone", "respond")
       \/ Moves("current_rssi", "respond", "idle")
    /\ UNCHANGED <<chain, scoring, scanning, neighbors, worker>>

NextLocks ==
    \/ ScanDevicesRuns
    \/ ObservationTaskRuns
    \/ ListenerRuns
    \/ CurrentRssiRuns

SpecLocks == Init /\ [][NextLocks]_vars

LockTasks == {"scan_devices", "task", "listener", "current_rssi"}
LockNames == {"rssi_data", "neighbor_addresses"}

\* The places where a task waits for a discovery event, a peer's signal
\* event, a device property read or the network: for a time without bound.
UnboundedWaits ==
    {"discover", "select", "device_rssi", "subscribing", "events",
     "subscribe", "blocks_next", "block_events", "idle"}

\* The places where a task waits for a lock, if it is taken.
WaitsFor(task) ==
    CASE task = "scan_devices" /\ at[task] \in {"start", "select"} -> {"neighbor_addresses"}
      [] task = "scan_devices" /\ at[task] \in {"device_rssi", "removed"} -> {"rssi_data"}
      [] task = "task" /\ at[task] \in {"event", "event_aborted"} -> {"rssi_data"}
      [] task = "listener" /\ at[task] = "event" -> {"neighbor_addresses"}
      [] task = "current_rssi" /\ at[task] = "request" -> {"rssi_data"}
      [] OTHER -> {}

Held(task) == {lock \in LockNames : holder[lock] = task}

(* C35: no task holds the lock of the window map or of the neighbor set
   while it waits for a discovery event, a peer's signal event, a device
   property read or the network; no task ever holds both locks; and no task
   waits for a lock whose holder waits too: every lock that is held is held
   by a task about to drop it, so the tasks cannot deadlock. *)
C35_NoLockAcrossWait ==
    \A task \in LockTasks :
        /\ at[task] \in UnboundedWaits => Held(task) = {}
        /\ Cardinality(Held(task)) <= 1
        /\ \A lock \in WaitsFor(task) :
               holder[lock] \in LockTasks =>
                   /\ holder[lock] # task
                   /\ WaitsFor(holder[lock]) = {}
                   /\ at[holder[lock]] \notin UnboundedWaits

\* The discovery loop needs the lock of the window map for a first reading
\* while an observation task holds it for a push, the listener holds the
\* lock of the neighbor set and a query waits.
C35_Witness ==
    /\ at["scan_devices"] = "device_rssi"
    /\ at["task"] = "push"
    /\ holder["rssi_data"] = "task"
    /\ at["listener"] = "update"
    /\ holder["neighbor_addresses"] = "listener"
    /\ at["current_rssi"] = "request"

===========================================================================
